---- MODULE Spec2Model ----
(***************************************************************************)
(* A model of the Agroscan crop analysis pipeline: the species classifier  *)
(* (models/crop_classifier.py), the quality assessor                       *)
(* (models/quality_assessor.py), the disease detector                      *)
(* (models/disease_detector.py), the treatment lookup                      *)
(* (utils/treatment_database.py) and the pipeline of app.py.               *)
(*                                                                         *)
(* Numbers.  Python floats are modelled as exact rationals [n, d] in       *)
(* lowest terms, so every weight, threshold and comparison of the source   *)
(* is computed exactly (floating-point rounding is not modelled).          *)
(*                                                                         *)
(* Images.  An 8-bit RGB image is a column of NPix pixels, each given by   *)
(* the (h, s, v) triple cv2.cvtColor(image, COLOR_RGB2HSV) yields for it   *)
(* (h in 0..179, s and v in 0..255), together with the measurements the    *)
(* OpenCV routines return on it (Canny edge density, contour circularity,  *)
(* Hough line count, ...), which are inputs of the model: the source       *)
(* computes its scores from them, and those computations are modelled.     *)
(***************************************************************************)
EXTENDS Integers, Sequences, FiniteSets, TLC

(***************************************************************************)
(* Bounds of the model.                                                    *)
(***************************************************************************)
\* pixels (rows of a one-column image) per image of the quality and disease stages
NPix == 2
\* _determine_severity is applied to the scores k/SeverityGrid, k in 0..SeverityGrid
SeverityGrid == 20

(***************************************************************************)
(* Exact rational arithmetic standing for Python float arithmetic.         *)
(***************************************************************************)
Abs(x) == IF x < 0 THEN -x ELSE x

RECURSIVE GCD(_, _)
GCD(a, b) == IF b = 0 THEN a ELSE GCD(b, a % b)

\* the rational n/d (d > 0) in lowest terms
Q(n, d) == LET g == GCD(Abs(n), d) IN [n |-> n \div g, d |-> d \div g]

Zero == Q(0, 1)
One == Q(1, 1)
Half == Q(1, 2)

QAdd(a, b) ==
    LET g == GCD(a.d, b.d)
        l == (a.d \div g) * b.d
    IN Q(a.n * (l \div a.d) + b.n * (l \div b.d), l)

QNeg(a) == [n |-> -a.n, d |-> a.d]

QSub(a, b) == QAdd(a, QNeg(b))

QMul(a, b) ==
    LET g1 == GCD(Abs(a.n), b.d)
        g2 == GCD(Abs(b.n), a.d)
    IN Q((a.n \div g1) * (b.n \div g2), (a.d \div g2) * (b.d \div g1))

QLt(a, b) == a.n * b.d < b.n * a.d

QLe(a, b) == a.n * b.d <= b.n * a.d

QAbs(a) == [n |-> Abs(a.n), d |-> a.d]

\* Python's min(a, b) and max(a, b)
QMin(a, b) == IF QLt(b, a) THEN b ELSE a

QMax(a, b) == IF QLt(a, b) THEN b ELSE a

\* floor of the square root of a natural number
RECURSIVE SqrtIn(_, _, _)
SqrtIn(x, lo, hi) ==
    IF lo + 1 >= hi THEN lo
    ELSE LET mid == (lo + hi) \div 2
         IN IF mid * mid <= x THEN SqrtIn(x, mid, hi) ELSE SqrtIn(x, lo, mid)

ISqrt(x) == SqrtIn(x, 0, 46341)

RECURSIVE SumSeq(_)
SumSeq(s) == IF s = << >> THEN 0 ELSE Head(s) + SumSeq(Tail(s))

\* np.mean of a boolean mask: the fraction of the pixels that satisfy P
MaskMean(px, P(_)) == Q(Cardinality({i \in DOMAIN px : P(px[i])}), Len(px))

(***************************************************************************)
(* Crops and images.                                                       *)
(***************************************************************************)
\* crop_classifier.py: self.crop_classes
crop_classes == <<"corn", "yam", "cassava", "tomato">>

KnownCrops == {crop_classes[i] : i \in DOMAIN crop_classes}

\* a species string outside the known set
OtherCrop == "rice"

CropInputs == KnownCrops \cup {OtherCrop}

Pixel(h, s, v) == [h |-> h, s |-> s, v |-> v]

\* the colours the modelled images are made of, as OpenCV HSV triples
Palette ==
    { Pixel(0, 0, 128),      \* mid gray
      Pixel(0, 0, 20),       \* black
      Pixel(0, 0, 255),      \* white
      Pixel(15, 102, 102),   \* brown
      Pixel(25, 204, 204),   \* vivid yellow
      Pixel(0, 255, 255),    \* saturated red
      Pixel(60, 204, 153) }  \* green

\* a uniform mid-gray column
GrayPx == [i \in 1..NPix |-> Pixel(0, 0, 128)]

PixelColumns == [1..NPix -> Palette]

\* the contour cv2.findContours reports as the largest one, if any
NoContour == [kind |-> "none", circ |-> Zero]
PointContour == [kind |-> "point", circ |-> Zero]
Shape(c) == [kind |-> "shape", circ |-> c]

\* an image and what the OpenCV routines measure on it; kind is "rgb" (an
\* H x W x 3 uint8 array), "gray" (an H x W uint8 array), "float" (an
\* H x W x 3 float64 array), "empty" (an array of size 0) or "none" (None)
BlankImage ==
    [ kind |-> "rgb",
      px |-> GrayPx,
      texture_variance |-> 0,        \* np.var(gray)
      edge_density |-> Zero,         \* np.sum(Canny > 0) / size
      contour |-> NoContour,         \* largest contour after Otsu thresholding
      lab_outliers |-> Zero,         \* fraction of L more than 2 std from the mean
      hough_lines |-> 0,             \* len(HoughLinesP(...)), 0 for None
      laplacian_var |-> 0,           \* np.var(cv2.Laplacian(gray))
      sobel_ratio |-> Zero,          \* std / mean of the Sobel magnitude
      hole_count |-> 0,              \* circular dark contours of area > 50
      irregular_count |-> 0,         \* irregular dark contours of area > 50
      tunnel_count |-> 0,            \* long narrow dark contours of area > 100
      blur_low |-> Zero,             \* fraction of |gray - blur| under its 20th percentile
      wrinkle |-> Zero,              \* fraction of Sobel magnitude over its 80th percentile
      sunken |-> Zero,               \* mean of the closed dark mask
      protruding |-> Zero,           \* mean of bright & dilated edges
      fiber |-> Zero,                \* mean of the opened line image > 0
      blue |-> Zero,                 \* mean of LAB b < 120
      streak_frac |-> Zero,          \* fraction of the brown mask kept by the openings
      edge_frac |-> Zero,            \* fraction of the yellow mask in dilated edges
      fuzzy_frac |-> Zero ]          \* fraction of the white mask of high local variance

ImageOfKind(k) == [BlankImage EXCEPT !.kind = k]

\* np.array(image).size == 0, or image is None
IsEmpty(img) == img.kind \in {"empty", "none"}

\* a variant of the conversion that accepts every array
CvtColorRGBFails_never(img) == FALSE

\* cv2.cvtColor with a COLOR_RGB2* code needs a 3-channel 8-bit (or float32) array
CvtColorRGBFails(img) == img.kind # "rgb"

(***************************************************************************)
(* QualityAssessor (models/quality_assessor.py).                           *)
(***************************************************************************)
QA_detect_brown_spots(px) ==
    LET brown_mask(p) == (p.h >= 10 /\ p.h <= 25) /\ p.s > 30 /\ p.v < 150
    IN MaskMean(px, brown_mask)

QA_detect_dark_spots(px) ==
    LET dark_mask(p) == p.v < 50
    IN MaskMean(px, dark_mask)

QA_detect_black_spots(px) ==
    LET black_mask(p) == p.v < 30
    IN MaskMean(px, black_mask)

\* v < mean(v) * 0.5, compared as 2 * v * n < sum(v)
QA_detect_dark_patches(px) ==
    LET total == SumSeq([i \in DOMAIN px |-> px[i].v])
        dark_mask(p) == 2 * p.v * Len(px) < total
    IN MaskMean(px, dark_mask)

QA_calculate_yellow_vibrancy(px) ==
    LET yellow_mask(p) == (p.h >= 20 /\ p.h <= 35) /\ p.s > 50 /\ p.v > 100
        sel == {i \in DOMAIN px : yellow_mask(px[i])}
        total == SumSeq([i \in DOMAIN px |-> IF i \in sel THEN px[i].s ELSE 0])
    IN IF sel # {} THEN Q(total, Cardinality(sel) * 255) ELSE Zero

\* s[red_mask] * v[red_mask] is a product of uint8 arrays: it wraps modulo 256
\* a variant of _assess_tomato_red_quality whose products do not wrap at 256
QA_assess_tomato_red_quality_wide(px) ==
    LET red_mask(p) == (p.h <= 10 \/ p.h >= 170) /\ p.s > 50 /\ p.v > 100
        sel == {i \in DOMAIN px : red_mask(px[i])}
        total == SumSeq([i \in DOMAIN px |-> IF i \in sel THEN px[i].s * px[i].v ELSE 0])
    IN IF sel # {} THEN Q(total, Cardinality(sel) * 255 * 255) ELSE Zero

QA_assess_tomato_red_quality(px) ==
    LET red_mask(p) == (p.h <= 10 \/ p.h >= 170) /\ p.s > 50 /\ p.v > 100
        sel == {i \in DOMAIN px : red_mask(px[i])}
        total == SumSeq([i \in DOMAIN px |->
                            IF i \in sel THEN (px[i].s * px[i].v) % 256 ELSE 0])
    IN IF sel # {} THEN Q(total, Cardinality(sel) * 255 * 255) ELSE Zero

\* np.std(h): the population standard deviation of the hue channel, to 1/100
HueStd(px) ==
    LET n == Len(px)
        sum == SumSeq([i \in DOMAIN px |-> px[i].h])
        sumsq == SumSeq([i \in DOMAIN px |-> px[i].h * px[i].h])
    IN Q(ISqrt((n * sumsq - sum * sum) * 10000), n * 100)

QA_calculate_color_uniformity(px) == QSub(One, QMul(HueStd(px), Q(1, 180)))

QA_assess_white_purity(px) ==
    LET white_mask(p) == p.s < 30 /\ p.v > 200
    IN MaskMean(px, white_mask)

QA_detect_mold_growth(px) ==
    LET mold_mask(p) == (p.h >= 40 /\ p.h <= 140) /\ p.s > 30 /\ p.v > 30
    IN MaskMean(px, mold_mask)

QA_detect_soft_spots(img) == img.lab_outliers

QA_detect_surface_damage(img) ==
    IF img.hough_lines # 0 THEN QMin(Q(img.hough_lines, 50), One) ELSE Zero

\* a variant of _analyze_color_degradation without the vibrancy, quality,
\* uniformity and purity complements
analyze_color_degradation_masks_only(img, crop_type) ==
    LET px == img.px
        degradation_score ==
            CASE crop_type = "corn" -> QMul(QA_detect_brown_spots(px), Q(7, 10))
              [] crop_type = "tomato" -> QMul(QA_detect_dark_spots(px), Q(4, 10))
              [] crop_type = "yam" -> QMul(QA_detect_dark_patches(px), Q(8, 10))
              [] crop_type = "cassava" -> QMul(QA_detect_black_spots(px), Q(7, 10))
              [] OTHER -> Zero
    IN QMin(degradation_score, One)

analyze_color_degradation(img, crop_type) ==
    LET px == img.px
        degradation_score ==
            CASE crop_type = "corn" ->
                   QAdd(QMul(QA_detect_brown_spots(px), Q(7, 10)),
                        QMul(QSub(One, QA_calculate_yellow_vibrancy(px)), Q(3, 10)))
              [] crop_type = "tomato" ->
                   QAdd(QMul(QSub(One, QA_assess_tomato_red_quality(px)), Q(6, 10)),
                        QMul(QA_detect_dark_spots(px), Q(4, 10)))
              [] crop_type = "yam" ->
                   QAdd(QMul(QA_detect_dark_patches(px), Q(8, 10)),
                        QMul(QSub(One, QA_calculate_color_uniformity(px)), Q(2, 10)))
              [] crop_type = "cassava" ->
                   QAdd(QMul(QA_detect_black_spots(px), Q(7, 10)),
                        QMul(QSub(One, QA_assess_white_purity(px)), Q(3, 10)))
              [] OTHER -> Zero
    IN QMin(degradation_score, One)

analyze_texture_degradation(img, crop_type) ==
    LET edge_density == img.edge_density
        variance_deviation == Q(Abs(img.texture_variance - 800), 800)
        degradation_score ==
            CASE crop_type = "corn" ->
                   QMul(QMin(variance_deviation, One), Q(6, 10))
              [] crop_type = "tomato" ->
                   QMul(QMin(QMul(edge_density, Q(5, 1)), One), Q(7, 10))
              [] crop_type = "yam" ->
                   IF QLt(Q(15, 100), edge_density)
                   THEN QMul(QSub(edge_density, Q(15, 100)), Q(3, 1))
                   ELSE Zero
              [] crop_type = "cassava" ->
                   QMul(QMin(QMul(edge_density, Q(4, 1)), One), Q(6, 10))
              [] OTHER -> Zero
    IN QMin(degradation_score, One)

analyze_shape_degradation(img, crop_type) ==
    LET circularity == img.contour.circ
        degradation_score ==
            IF img.contour.kind = "shape"
            THEN CASE crop_type = "tomato" ->
                        QMul(QAbs(QSub(circularity, Q(7, 10))), Half)
                   [] crop_type \in {"corn", "yam", "cassava"} ->
                        IF QLt(circularity, Q(2, 10))
                        THEN QMul(QSub(Q(2, 10), circularity), Q(2, 1))
                        ELSE Zero
                   [] OTHER -> Zero
            ELSE Zero
    IN IF img.contour.kind = "none" THEN Half ELSE QMin(degradation_score, One)

\* a variant of _analyze_surface_condition without the final min(..., 1.0)
analyze_surface_condition_unclamped(img, crop_type) ==
    QAdd(QAdd(QMul(QA_detect_mold_growth(img.px), Q(8, 10)),
              QMul(QA_detect_soft_spots(img), Q(6, 10))),
         QMul(QA_detect_surface_damage(img), Q(4, 10)))

analyze_surface_condition(img, crop_type) ==
    LET mold_score == QA_detect_mold_growth(img.px)
        soft_spots == QA_detect_soft_spots(img)
        surface_damage == QA_detect_surface_damage(img)
        degradation_score ==
            QAdd(QAdd(QMul(mold_score, Q(8, 10)), QMul(soft_spots, Q(6, 10))),
                 QMul(surface_damage, Q(4, 10)))
    IN QMin(degradation_score, One)

\* _calculate_spoilage_score: the per-crop weight table
weights ==
    [ corn |-> [color |-> Q(4, 10), texture |-> Q(3, 10), shape |-> Q(1, 10), surface |-> Q(2, 10)],
      tomato |-> [color |-> Q(3, 10), texture |-> Q(2, 10), shape |-> Q(2, 10), surface |-> Q(3, 10)],
      yam |-> [color |-> Q(4, 10), texture |-> Q(2, 10), shape |-> Q(1, 10), surface |-> Q(3, 10)],
      cassava |-> [color |-> Q(4, 10), texture |-> Q(2, 10), shape |-> Q(1, 10), surface |-> Q(3, 10)] ]

\* a variant of _calculate_spoilage_score whose default weights are tomato's
calculate_spoilage_score_tomato_default(color, texture, shape, surface, crop_type) ==
    LET crop_weights == IF crop_type \in DOMAIN weights THEN weights[crop_type]
                        ELSE weights["tomato"]
    IN QMin(QAdd(QAdd(QMul(color, crop_weights.color), QMul(texture, crop_weights.texture)),
                 QAdd(QMul(shape, crop_weights.shape), QMul(surface, crop_weights.surface))),
            One)

calculate_spoilage_score(color, texture, shape, surface, crop_type) ==
    LET crop_weights == IF crop_type \in DOMAIN weights THEN weights[crop_type]
                        ELSE weights["corn"]
        spoilage_score ==
            QAdd(QAdd(QMul(color, crop_weights.color), QMul(texture, crop_weights.texture)),
                 QAdd(QMul(shape, crop_weights.shape), QMul(surface, crop_weights.surface)))
    IN QMin(spoilage_score, One)

get_default_result ==
    [ status |-> "unknown",
      confidence |-> Half,
      spoilage_score |-> Half,
      indicators |-> [color |-> Half, texture |-> Half, shape |-> Half, surface |-> Half] ]

\* a variant of the status test with the threshold itself still fresh
quality_status_inclusive(spoilage_score) ==
    IF QLe(spoilage_score, Q(3, 10)) THEN "fresh" ELSE "spoiled"

\* the status a spoilage score is given
quality_status(spoilage_score) ==
    IF QLt(spoilage_score, Q(3, 10)) THEN "fresh" ELSE "spoiled"

\* a variant without the cap
cap_confidence_none(confidence) == confidence

\* the cap on a reported confidence
cap_confidence(confidence) == QMin(confidence, Q(95, 100))

\* assess_quality: the try block; every exception ends in the default result
assess_quality(img, crop_type) ==
    IF IsEmpty(img) THEN get_default_result
    ELSE IF CvtColorRGBFails(img) THEN get_default_result
    ELSE
      LET color_analysis == analyze_color_degradation(img, crop_type)
          texture_analysis == analyze_texture_degradation(img, crop_type)
          shape_analysis == analyze_shape_degradation(img, crop_type)
          surface_analysis == analyze_surface_condition(img, crop_type)
          spoilage_score == calculate_spoilage_score(color_analysis, texture_analysis,
                                shape_analysis, surface_analysis, crop_type)
          status == quality_status(spoilage_score)
          confidence == IF status = "fresh" THEN QSub(One, spoilage_score)
                        ELSE spoilage_score
      IN [ status |-> status,
           confidence |-> cap_confidence(confidence),
           spoilage_score |-> spoilage_score,
           indicators |-> [color |-> color_analysis, texture |-> texture_analysis,
                           shape |-> shape_analysis, surface |-> surface_analysis] ]

(***************************************************************************)
(* DiseaseDetector (models/disease_detector.py).                           *)
(***************************************************************************)
Entry(name, color_patterns, texture_patterns) ==
    [name |-> name, color_patterns |-> color_patterns, texture_patterns |-> texture_patterns]

\* __init__: self.disease_patterns, each crop's diseases in their declared order
DiseaseCatalog ==
    [ corn |-> <<
        Entry("fungal_infection", <<"gray_spots", "black_mold">>,
              <<"fuzzy_growth", "irregular_surface">>),
        Entry("bacterial_rot", <<"brown_discoloration", "yellow_edges">>,
              <<"soft_kernels", "liquid_discharge">>),
        Entry("pest_damage", <<"holes", "chewed_kernels">>,
              <<"irregular_holes", "damaged_surface">>),
        Entry("overripeness", <<"dark_kernels", "brown_patches">>,
              <<"dried_surface", "hardened_kernels">>) >>,
      tomato |-> <<
        Entry("fungal_infection", <<"gray_mold", "white_fuzzy_spots">>,
              <<"fuzzy_growth", "soft_spots">>),
        Entry("bacterial_rot", <<"dark_spots", "black_patches">>,
              <<"liquid_spots", "soft_areas">>),
        Entry("overripeness", <<"deep_red", "brown_patches">>,
              <<"soft_skin", "wrinkled_surface">>),
        Entry("blossom_end_rot", <<"black_bottom", "dark_circular_spot">>,
              <<"sunken_area", "hardened_spot">>) >>,
      yam |-> <<
        Entry("fungal_infection", <<"white_mold", "gray_spots">>,
              <<"fuzzy_surface", "soft_spots">>),
        Entry("bacterial_rot", <<"dark_patches", "black_spots">>,
              <<"soft_areas", "liquid_discharge">>),
        Entry("storage_rot", <<"brown_discoloration", "dark_areas">>,
              <<"soft_flesh", "collapsed_areas">>),
        Entry("sprouting", <<"green_shoots", "white_roots">>,
              <<"protruding_growth", "bumpy_surface">>) >>,
      cassava |-> <<
        Entry("fungal_infection", <<"black_spots", "gray_mold">>,
              <<"fuzzy_growth", "soft_areas">>),
        Entry("bacterial_rot", <<"brown_streaks", "dark_discoloration">>,
              <<"soft_flesh", "watery_areas">>),
        Entry("storage_deterioration", <<"blue_discoloration", "brown_lines">>,
              <<"fiber_separation", "tough_areas">>),
        Entry("pest_damage", <<"holes", "chewed_areas">>,
              <<"tunnel_patterns", "irregular_holes">>) >> ]

\* a computed value, or an exception raised while computing it
Ok(v) == [ok |-> TRUE, val |-> v]

Raised == [ok |-> FALSE, val |-> Zero]

DD_detect_gray_spots(px) ==
    LET gray_mask(p) == p.s < 50 /\ p.v >= 50 /\ p.v <= 150
    IN MaskMean(px, gray_mask)

DD_detect_black_mold(px) ==
    LET black_mask(p) == p.v < 40
    IN MaskMean(px, black_mask)

DD_detect_brown_discoloration(px) ==
    LET brown_mask(p) == (p.h >= 10 /\ p.h <= 25) /\ p.s > 30 /\ p.v < 120
    IN MaskMean(px, brown_mask)

\* mean(yellow_mask & edge_regions), the edge regions found on
\* cv2.cvtColor(hsv_image, cv2.COLOR_HSV2GRAY)
DD_detect_yellow_edges(img) ==
    LET yellow_mask(p) == (p.h >= 20 /\ p.h <= 35) /\ p.s > 50 /\ p.v > 100
    IN QMul(img.edge_frac, MaskMean(img.px, yellow_mask))

\* cv2.cvtColor(image, cv2.COLOR_RGB2GRAY) first: the array must have 3 channels
DD_detect_holes(img, channels) ==
    IF channels # 3 THEN Raised
    ELSE Ok(QMin(Q(img.hole_count, 10), One))

\* mean(white_mask & high local variance), the variance taken on
\* cv2.cvtColor(hsv_image, cv2.COLOR_HSV2GRAY)
DD_detect_white_fuzzy_spots(img) ==
    LET white_mask(p) == p.s < 30 /\ p.v > 200
    IN QMul(img.fuzzy_frac, MaskMean(img.px, white_mask))

DD_detect_dark_spots(px) ==
    LET dark_mask(p) == p.v < 60
    IN MaskMean(px, dark_mask)

DD_detect_deep_red(px) ==
    LET deep_red_mask(p) == (p.h <= 5 \/ p.h >= 175) /\ p.s > 100 /\ p.v < 150
    IN MaskMean(px, deep_red_mask)

\* the rows from int(2 * height / 3) on
DD_detect_black_bottom(px) ==
    LET height == Len(px)
        bottom_region == SubSeq(px, ((2 * height) \div 3) + 1, height)
        black_mask(p) == p.v < 40
    IN MaskMean(bottom_region, black_mask)

DD_detect_white_mold(img) == DD_detect_white_fuzzy_spots(img)

DD_detect_green_shoots(px) ==
    LET green_mask(p) == (p.h >= 40 /\ p.h <= 80) /\ p.s > 50 /\ p.v > 50
    IN MaskMean(px, green_mask)

DD_detect_blue_discoloration(img) == img.blue

DD_detect_brown_streaks(img) ==
    LET brown_mask(p) == (p.h >= 10 /\ p.h <= 25) /\ p.s > 30 /\ p.v < 120
    IN QMul(img.streak_frac, MaskMean(img.px, brown_mask))

DD_detect_fuzzy_growth(img) == QMin(Q(img.laplacian_var, 1000), One)

DD_detect_irregular_surface(img) == QMin(QMul(img.sobel_ratio, Half), One)

DD_detect_soft_kernels(img) == QMax(Zero, QSub(One, QMul(img.edge_density, Q(10, 1))))

DD_detect_liquid_discharge(px) ==
    LET liquid_mask(p) == p.s > 100 /\ p.v > 200
    IN MaskMean(px, liquid_mask)

\* holes_score = self._detect_holes(gray): the single-channel array is handed on
DD_detect_irregular_holes(img) ==
    LET holes_score == DD_detect_holes(img, 1)
        irregularity == QMin(Q(img.irregular_count, 5), One)
    IN IF holes_score.ok THEN Ok(QMul(holes_score.val, irregularity)) ELSE Raised

DD_detect_soft_spots(img) == img.blur_low

DD_detect_wrinkled_surface(img) == img.wrinkle

DD_detect_sunken_area(img) == img.sunken

DD_detect_protruding_growth(img) == img.protruding

DD_detect_fiber_separation(img) == img.fiber

DD_detect_tunnel_patterns(img) == QMin(Q(img.tunnel_count, 5), One)

Weighted(r, w) == IF r.ok THEN Ok(QMul(r.val, w)) ELSE Raised

\* a variant of the chain with a branch for the pattern name dark_kernels
color_pattern_term_dark_kernels(pattern, img, hsv2gray) ==
    CASE pattern = "gray_spots" -> Ok(QMul(DD_detect_gray_spots(img.px), Q(3, 10)))
      [] pattern = "black_mold" -> Ok(QMul(DD_detect_black_mold(img.px), Q(4, 10)))
      [] pattern = "brown_discoloration" ->
           Ok(QMul(DD_detect_brown_discoloration(img.px), Q(3, 10)))
      [] pattern = "yellow_edges" ->
           IF hsv2gray THEN Ok(QMul(DD_detect_yellow_edges(img), Q(2, 10))) ELSE Raised
      [] pattern = "holes" -> Weighted(DD_detect_holes(img, 3), Q(5, 10))
      [] pattern = "white_fuzzy_spots" ->
           IF hsv2gray THEN Ok(QMul(DD_detect_white_fuzzy_spots(img), Q(4, 10))) ELSE Raised
      [] pattern = "dark_spots" -> Ok(QMul(DD_detect_dark_spots(img.px), Q(3, 10)))
      [] pattern = "deep_red" -> Ok(QMul(DD_detect_deep_red(img.px), Q(2, 10)))
      [] pattern = "black_bottom" -> Ok(QMul(DD_detect_black_bottom(img.px), Q(5, 10)))
      [] pattern = "white_mold" ->
           IF hsv2gray THEN Ok(QMul(DD_detect_white_mold(img), Q(4, 10))) ELSE Raised
      [] pattern = "green_shoots" -> Ok(QMul(DD_detect_green_shoots(img.px), Q(6, 10)))
      [] pattern = "blue_discoloration" ->
           Ok(QMul(DD_detect_blue_discoloration(img), Q(4, 10)))
      [] pattern = "brown_streaks" -> Ok(QMul(DD_detect_brown_streaks(img), Q(3, 10)))
      [] pattern = "dark_kernels" -> Ok(QMul(DD_detect_dark_spots(img.px), Q(3, 10)))
      [] OTHER -> Ok(Zero)

\* one branch of the if/elif chain of _analyze_color_patterns; hsv2gray tells
\* whether the OpenCV build defines cv2.COLOR_HSV2GRAY
color_pattern_term(pattern, img, hsv2gray) ==
    CASE pattern = "gray_spots" -> Ok(QMul(DD_detect_gray_spots(img.px), Q(3, 10)))
      [] pattern = "black_mold" -> Ok(QMul(DD_detect_black_mold(img.px), Q(4, 10)))
      [] pattern = "brown_discoloration" ->
           Ok(QMul(DD_detect_brown_discoloration(img.px), Q(3, 10)))
      [] pattern = "yellow_edges" ->
           IF hsv2gray THEN Ok(QMul(DD_detect_yellow_edges(img), Q(2, 10))) ELSE Raised
      [] pattern = "holes" -> Weighted(DD_detect_holes(img, 3), Q(5, 10))
      [] pattern = "white_fuzzy_spots" ->
           IF hsv2gray THEN Ok(QMul(DD_detect_white_fuzzy_spots(img), Q(4, 10))) ELSE Raised
      [] pattern = "dark_spots" -> Ok(QMul(DD_detect_dark_spots(img.px), Q(3, 10)))
      [] pattern = "deep_red" -> Ok(QMul(DD_detect_deep_red(img.px), Q(2, 10)))
      [] pattern = "black_bottom" -> Ok(QMul(DD_detect_black_bottom(img.px), Q(5, 10)))
      [] pattern = "white_mold" ->
           IF hsv2gray THEN Ok(QMul(DD_detect_white_mold(img), Q(4, 10))) ELSE Raised
      [] pattern = "green_shoots" -> Ok(QMul(DD_detect_green_shoots(img.px), Q(6, 10)))
      [] pattern = "blue_discoloration" ->
           Ok(QMul(DD_detect_blue_discoloration(img), Q(4, 10)))
      [] pattern = "brown_streaks" -> Ok(QMul(DD_detect_brown_streaks(img), Q(3, 10)))
      [] OTHER -> Ok(Zero)

\* one branch of the if/elif chain of _analyze_texture_patterns
texture_pattern_term(pattern, img) ==
    CASE pattern = "fuzzy_growth" -> Ok(QMul(DD_detect_fuzzy_growth(img), Q(4, 10)))
      [] pattern = "irregular_surface" ->
           Ok(QMul(DD_detect_irregular_surface(img), Q(2, 10)))
      [] pattern = "soft_kernels" -> Ok(QMul(DD_detect_soft_kernels(img), Q(3, 10)))
      [] pattern = "liquid_discharge" ->
           Ok(QMul(DD_detect_liquid_discharge(img.px), Q(5, 10)))
      [] pattern = "irregular_holes" -> Weighted(DD_detect_irregular_holes(img), Q(4, 10))
      [] pattern = "soft_spots" -> Ok(QMul(DD_detect_soft_spots(img), Q(3, 10)))
      [] pattern = "wrinkled_surface" ->
           Ok(QMul(DD_detect_wrinkled_surface(img), Q(3, 10)))
      [] pattern = "sunken_area" -> Ok(QMul(DD_detect_sunken_area(img), Q(4, 10)))
      [] pattern = "protruding_growth" ->
           Ok(QMul(DD_detect_protruding_growth(img), Q(5, 10)))
      [] pattern = "fiber_separation" ->
           Ok(QMul(DD_detect_fiber_separation(img), Q(3, 10)))
      [] pattern = "tunnel_patterns" -> Ok(QMul(DD_detect_tunnel_patterns(img), Q(4, 10)))
      [] OTHER -> Ok(Zero)

\* the sum of a sequence of terms, or the first exception among them
\* the weight of a pattern name in the if/elif chain of _analyze_color_patterns;
\* a name without a branch adds nothing
color_pattern_weight(pattern) ==
    CASE pattern = "gray_spots" -> Q(3, 10)
      [] pattern = "black_mold" -> Q(4, 10)
      [] pattern = "brown_discoloration" -> Q(3, 10)
      [] pattern = "yellow_edges" -> Q(2, 10)
      [] pattern = "holes" -> Q(5, 10)
      [] pattern = "white_fuzzy_spots" -> Q(4, 10)
      [] pattern = "dark_spots" -> Q(3, 10)
      [] pattern = "deep_red" -> Q(2, 10)
      [] pattern = "black_bottom" -> Q(5, 10)
      [] pattern = "white_mold" -> Q(4, 10)
      [] pattern = "green_shoots" -> Q(6, 10)
      [] pattern = "blue_discoloration" -> Q(4, 10)
      [] pattern = "brown_streaks" -> Q(3, 10)
      [] OTHER -> Zero

\* the weight of a pattern name in the if/elif chain of _analyze_texture_patterns
texture_pattern_weight(pattern) ==
    CASE pattern = "fuzzy_growth" -> Q(4, 10)
      [] pattern = "irregular_surface" -> Q(2, 10)
      [] pattern = "soft_kernels" -> Q(3, 10)
      [] pattern = "liquid_discharge" -> Q(5, 10)
      [] pattern = "irregular_holes" -> Q(4, 10)
      [] pattern = "soft_spots" -> Q(3, 10)
      [] pattern = "wrinkled_surface" -> Q(3, 10)
      [] pattern = "sunken_area" -> Q(4, 10)
      [] pattern = "protruding_growth" -> Q(5, 10)
      [] pattern = "fiber_separation" -> Q(3, 10)
      [] pattern = "tunnel_patterns" -> Q(4, 10)
      [] OTHER -> Zero

RECURSIVE SumTerms(_)
SumTerms(terms) ==
    IF terms = << >> THEN Ok(Zero)
    ELSE LET rest == SumTerms(Tail(terms))
         IN IF ~Head(terms).ok THEN Raised
            ELSE IF ~rest.ok THEN Raised
            ELSE Ok(QAdd(Head(terms).val, rest.val))

Clamp(r) == IF r.ok THEN Ok(QMin(r.val, One)) ELSE Raised

analyze_color_patterns(img, color_patterns, hsv2gray) ==
    IF CvtColorRGBFails(img) THEN Raised
    ELSE Clamp(SumTerms([i \in DOMAIN color_patterns |->
                            color_pattern_term(color_patterns[i], img, hsv2gray)]))

analyze_texture_patterns(img, texture_patterns) ==
    IF CvtColorRGBFails(img) THEN Raised
    ELSE Clamp(SumTerms([i \in DOMAIN texture_patterns |->
                            texture_pattern_term(texture_patterns[i], img)]))

\* a variant of _analyze_disease_pattern that adds the two scores unweighted
analyze_disease_pattern_summed(img, patterns, hsv2gray) ==
    LET color_score == analyze_color_patterns(img, patterns.color_patterns, hsv2gray)
        texture_score == analyze_texture_patterns(img, patterns.texture_patterns)
    IN IF ~color_score.ok \/ ~texture_score.ok THEN Raised
       ELSE Ok(QAdd(color_score.val, texture_score.val))

\* a variant of _analyze_disease_pattern that weighs colour and texture evenly
analyze_disease_pattern_even(img, patterns, hsv2gray) ==
    LET color_score == analyze_color_patterns(img, patterns.color_patterns, hsv2gray)
        texture_score == analyze_texture_patterns(img, patterns.texture_patterns)
    IN IF ~color_score.ok \/ ~texture_score.ok THEN Raised
       ELSE Ok(QAdd(QMul(Half, color_score.val), QMul(Half, texture_score.val)))

analyze_disease_pattern(img, patterns, hsv2gray) ==
    LET color_score == analyze_color_patterns(img, patterns.color_patterns, hsv2gray)
        texture_score == analyze_texture_patterns(img, patterns.texture_patterns)
    IN IF ~color_score.ok \/ ~texture_score.ok THEN Raised
       ELSE Ok(QAdd(QMul(Q(6, 10), color_score.val), QMul(Q(4, 10), texture_score.val)))

\* a variant of _determine_severity with each threshold in the lower bucket
determine_severity_lower(confidence_score) ==
    IF QLe(confidence_score, Q(3, 10)) THEN "mild"
    ELSE IF QLe(confidence_score, Q(6, 10)) THEN "moderate"
    ELSE IF QLe(confidence_score, Q(8, 10)) THEN "severe"
    ELSE "critical"

determine_severity(confidence_score) ==
    IF QLt(confidence_score, Q(3, 10)) THEN "mild"
    ELSE IF QLt(confidence_score, Q(6, 10)) THEN "moderate"
    ELSE IF QLt(confidence_score, Q(8, 10)) THEN "severe"
    ELSE "critical"

\* the f-string templates, by the disease they are keyed on
get_disease_description(disease_type, crop_type) ==
    IF disease_type \in {"fungal_infection", "bacterial_rot", "pest_damage", "overripeness",
                         "storage_rot", "sprouting", "storage_deterioration"}
    THEN <<disease_type, crop_type>>
    ELSE IF disease_type = "blossom_end_rot" THEN <<disease_type>>
    ELSE <<"unspecified", crop_type>>

\* a variant of the selection that keeps the last of the entries of maximal score
RECURSIVE MaxFrom_last(_, _)
MaxFrom_last(scores, best) ==
    IF scores = << >> THEN best
    ELSE MaxFrom_last(Tail(scores),
                      IF QLe(best.score, Head(scores).score) THEN Head(scores) ELSE best)

\* max(disease_scores, key=disease_scores.get): the first entry, in the order of
\* insertion, that no later entry exceeds
RECURSIVE MaxFrom(_, _)
MaxFrom(scores, best) ==
    IF scores = << >> THEN best
    ELSE MaxFrom(Tail(scores),
                 IF QLt(best.score, Head(scores).score) THEN Head(scores) ELSE best)

\* a variant of the selection that takes the first entry of the iteration
most_likely_first(disease_scores) == Head(disease_scores)

most_likely(disease_scores) == MaxFrom(Tail(disease_scores), Head(disease_scores))

unknown_spoilage ==
    [ disease_type |-> "unknown_spoilage",
      confidence |-> Half,
      severity |-> "moderate",
      description |-> <<"undetermined">> ]

\* a variant of detect_disease that converts the image before it looks the species up
detect_disease_image_first(img, crop_type, catalog, hsv2gray) ==
    IF CvtColorRGBFails(img) THEN Raised
    ELSE IF crop_type \notin DOMAIN catalog THEN Ok(unknown_spoilage)
    ELSE
      LET crop_diseases == catalog[crop_type]
          scored == [i \in DOMAIN crop_diseases |->
                        analyze_disease_pattern(img, crop_diseases[i], hsv2gray)]
      IN IF \E i \in DOMAIN scored : ~scored[i].ok THEN Raised
         ELSE
           LET disease_scores == [i \in DOMAIN crop_diseases |->
                                    [name |-> crop_diseases[i].name, score |-> scored[i].val]]
               best == most_likely(disease_scores)
           IN Ok([ disease_type |-> best.name,
                   confidence |-> QMin(best.score, Q(95, 100)),
                   severity |-> determine_severity(best.score),
                   description |-> get_disease_description(best.name, crop_type),
                   all_scores |-> disease_scores ])

\* detect_disease: a result record, or Raised when a detector raises
detect_disease(img, crop_type, catalog, hsv2gray) ==
    IF crop_type \notin DOMAIN catalog THEN Ok(unknown_spoilage)
    ELSE
      LET crop_diseases == catalog[crop_type]
          scored == [i \in DOMAIN crop_diseases |->
                        analyze_disease_pattern(img, crop_diseases[i], hsv2gray)]
      IN IF \E i \in DOMAIN scored : ~scored[i].ok THEN Raised
         ELSE
           LET disease_scores == [i \in DOMAIN crop_diseases |->
                                    [name |-> crop_diseases[i].name, score |-> scored[i].val]]
               best == most_likely(disease_scores)
               max_score == best.score
           IN Ok([ disease_type |-> best.name,
                   confidence |-> QMin(max_score, Q(95, 100)),
                   severity |-> determine_severity(max_score),
                   description |-> get_disease_description(best.name, crop_type),
                   all_scores |-> disease_scores ])

(***************************************************************************)
(* CropClassifier (models/crop_classifier.py).                             *)
(*                                                                         *)
(* The image handed to predict is height x width pixels of one colour,     *)
(* base (an RGB triple of 0s and 1s), at the brightness levels of a 2 x 2  *)
(* tile repeated over the image: the pixel at (r, c) has the channels      *)
(* 51 * level * base.  Its gray value is then level * GrayUnit, and the    *)
(* statistics of the source that are ratios of gray values (percentile     *)
(* masks, std / mean) are computed on the levels.                          *)
(***************************************************************************)
ClassifierImage(h, w, base, tile) == [height |-> h, width |-> w, base |-> base, tile |-> tile]

Cells(cimg) == (1..cimg.height) \X (1..cimg.width)

Level(cimg, r, c) == cimg.tile[((r - 1) % 2) + 1][((c - 1) % 2) + 1]

PixelAt(cimg, r, c) ==
    [k \in 1..3 |-> 51 * Level(cimg, r, c) * cimg.base[k]]

\* gray = np.dot(image[...,:3], [0.2989, 0.5870, 0.1140]) of a pixel of level 1
GrayUnit(cimg) ==
    Q(51 * (2989 * cimg.base[1] + 5870 * cimg.base[2] + 1140 * cimg.base[3]), 10000)

Max2(a, b) == IF a < b THEN b ELSE a

Min2(a, b) == IF b < a THEN b ELSE a

\* a variant of _rgb_to_hsv that computes the hue, as a fraction of the circle
rgb_to_hsv_with_hue(p) ==
    LET max_val == Max2(Max2(p[1], p[2]), p[3])
        min_val == Min2(Min2(p[1], p[2]), p[3])
        diff == max_val - min_val
        sixth == IF max_val = p[1] THEN (IF p[2] < p[3] THEN 6 * diff ELSE 0) + p[2] - p[3]
                 ELSE IF max_val = p[2] THEN 2 * diff + p[3] - p[1]
                 ELSE 4 * diff + p[1] - p[2]
    IN [ h |-> IF diff # 0 THEN Q(sixth, 6 * diff) ELSE Zero,
         s |-> IF max_val # 0 THEN Q(diff, max_val) ELSE Zero,
         v |-> Q(max_val, 255) ]

\* _rgb_to_hsv of one pixel: the hue is np.zeros_like(max_val) and is never written
rgb_to_hsv(p) ==
    LET max_val == Max2(Max2(p[1], p[2]), p[3])
        min_val == Min2(Min2(p[1], p[2]), p[3])
        diff == max_val - min_val
    IN [ h |-> Zero,
         s |-> IF max_val # 0 THEN Q(diff, max_val) ELSE Zero,
         v |-> Q(max_val, 255) ]

\* np.mean of a mask over the pixels of the classifier's image
CellMean(cimg, P(_)) ==
    Q(Cardinality({rc \in Cells(cimg) : P(rgb_to_hsv(PixelAt(cimg, rc[1], rc[2])))}),
      cimg.height * cimg.width)

extract_color_features(cimg) ==
    LET yellow_mask(p) == (QLe(Q(8, 100), p.h) /\ QLe(p.h, Q(17, 100)))
                            /\ QLt(Q(3, 10), p.s) /\ QLt(Q(3, 10), p.v)
        red_mask(p) == (QLe(p.h, Q(5, 100)) \/ QLe(Q(95, 100), p.h))
                            /\ QLt(Q(3, 10), p.s) /\ QLt(Q(3, 10), p.v)
        brown_mask(p) == (QLe(Q(5, 100), p.h) /\ QLe(p.h, Q(15, 100)))
                            /\ QLt(Q(2, 10), p.s) /\ QLt(p.v, Q(6, 10))
        white_mask(p) == QLt(p.s, Q(2, 10)) /\ QLt(Q(7, 10), p.v)
    IN [ dominant_yellow |-> CellMean(cimg, yellow_mask),
         dominant_red |-> CellMean(cimg, red_mask),
         dominant_brown |-> CellMean(cimg, brown_mask),
         dominant_white |-> CellMean(cimg, white_mask) ]

\* np.diff(gray, axis=0) has height - 1 rows and np.diff(gray, axis=1, prepend=0)
\* has height rows: numpy adds them only if one of the two counts is 1
EdgesBroadcast(cimg) == cimg.height - 1 = 1 \/ cimg.height = 1

\* edges = |np.diff(gray, axis=0)| + |np.diff(gray, axis=1, prepend=0)| at (r, c),
\* in gray levels, for an image of height 2 (the one row of the first term is
\* added to both rows of the second)
EdgeAt(cimg, r, c) ==
    Abs(Level(cimg, 2, c) - Level(cimg, 1, c))
      + Abs(Level(cimg, r, c) - (IF c = 1 THEN 0 ELSE Level(cimg, r, c - 1)))

\* the values of a function over cells, as a sequence in ascending order
RECURSIVE SortedFrom(_, _)
SortedFrom(f, cells) ==
    IF cells = {} THEN << >>
    ELSE LET m == CHOOSE x \in cells : \A y \in cells : f[x] <= f[y]
         IN <<f[m]>> \o SortedFrom(f, cells \ {m})

\* e > np.percentile(values, 80) (linear interpolation between the order
\* statistics at 0.8 * (n - 1)), both sides multiplied by 5
AbovePercentile80(e, sorted) ==
    LET n == Len(sorted)
        lo == (4 * (n - 1)) \div 5
        rem == (4 * (n - 1)) % 5
        hi == IF lo + 2 <= n THEN lo + 2 ELSE n
    IN 5 * e > 5 * sorted[lo + 1] + rem * (sorted[hi] - sorted[lo + 1])

\* std(x) / mean(x) > num / den for the values f over cells, as
\* den^2 * (n * sum(x^2) - sum(x)^2) > num^2 * sum(x)^2 with sum(x) > 0
RECURSIVE SumOver(_, _)
SumOver(f, cells) ==
    IF cells = {} THEN 0
    ELSE LET x == CHOOSE y \in cells : TRUE
         IN f[x] + SumOver(f, cells \ {x})

StdOverMeanAbove(f, cells, num, den) ==
    LET n == Cardinality(cells)
        sum == SumOver(f, cells)
        sumsq == SumOver([x \in cells |-> f[x] * f[x]], cells)
    IN sum > 0 /\ den * den * (n * sumsq - sum * sum) > num * num * sum * sum

StdOverMeanBelow(f, cells, num, den) ==
    LET n == Cardinality(cells)
        sum == SumOver(f, cells)
        sumsq == SumOver([x \in cells |-> f[x] * f[x]], cells)
    IN sum > 0 /\ den * den * (n * sumsq - sum * sum) < num * num * sum * sum

\* _extract_texture_features; smooth and rough are given by the thresholds
\* _apply_crop_heuristics compares them with (smooth > 0.6, rough > 0.5)
extract_texture_features(cimg) ==
    IF ~EdgesBroadcast(cimg) THEN Raised
    ELSE
      LET cells == Cells(cimg)
          edges == [rc \in cells |-> EdgeAt(cimg, rc[1], rc[2])]
          gray == [rc \in cells |-> Level(cimg, rc[1], rc[2])]
          sorted == SortedFrom(edges, cells)
          above == {rc \in cells : AbovePercentile80(edges[rc], sorted)}
          rowdiff == [c \in 1..cimg.width |-> Abs(Level(cimg, 2, c) - Level(cimg, 1, c))]
      IN Ok([ grid_pattern |-> Q(Cardinality(above), Cardinality(cells)),
              smooth_above_06 |-> StdOverMeanBelow(gray, cells, 2, 5),
              rough_above_05 |-> StdOverMeanAbove(edges, cells, 1, 2),
              fibrous |-> QMul(QMul(Q(SumSeq(rowdiff), cimg.width), GrayUnit(cimg)),
                               Q(1, 255)) ])

\* _extract_shape_features; irregular is given by the threshold it is compared
\* with (irregular > 0.6, that is std / (mean + 1e-6) > 1.2)
extract_shape_features(cimg) ==
    IF ~EdgesBroadcast(cimg) THEN Raised
    ELSE
      LET aspect_ratio == Q(cimg.width, cimg.height)
          inverse == Q(cimg.height, cimg.width)
          cells == Cells(cimg)
          edges == [rc \in cells |-> EdgeAt(cimg, rc[1], rc[2])]
      IN Ok([ elongated |-> IF QLt(Q(15, 10), aspect_ratio) \/ QLt(aspect_ratio, Q(67, 100))
                            THEN QMin(aspect_ratio, inverse) ELSE Zero,
              round |-> QSub(One, QAbs(QSub(aspect_ratio, One))),
              irregular_above_06 |-> StdOverMeanAbove(edges, cells, 6, 5),
              cylindrical |-> IF QLt(Q(2, 1), aspect_ratio)
                              THEN QMul(aspect_ratio, Q(1, 3)) ELSE Zero ])

Bonus(cond, w) == IF cond THEN w ELSE Zero

\* the heuristic score vector, in the order [corn, yam, cassava, tomato]
heuristic_scores(color_features, texture_features, shape_features) ==
    LET corn_score ==
            QAdd(QAdd(Bonus(QLt(Q(3, 10), color_features.dominant_yellow), Q(4, 10)),
                      Bonus(QLt(Q(5, 10), texture_features.grid_pattern), Q(3, 10))),
                 Bonus(QLt(Q(6, 10), shape_features.elongated), Q(3, 10)))
        tomato_score ==
            QAdd(QAdd(Bonus(QLt(Q(4, 10), color_features.dominant_red), Q(5, 10)),
                      Bonus(QLt(Q(7, 10), shape_features.round), Q(3, 10))),
                 Bonus(texture_features.smooth_above_06, Q(2, 10)))
        yam_score ==
            QAdd(QAdd(Bonus(QLt(Q(3, 10), color_features.dominant_brown), Q(4, 10)),
                      Bonus(texture_features.rough_above_05, Q(3, 10))),
                 Bonus(shape_features.irregular_above_06, Q(3, 10)))
        cassava_score ==
            QAdd(QAdd(Bonus(QLt(Q(3, 10), color_features.dominant_white), Q(4, 10)),
                      Bonus(QLt(Q(5, 10), shape_features.cylindrical), Q(3, 10))),
                 Bonus(QLt(Q(4, 10), texture_features.fibrous), Q(3, 10)))
    IN <<corn_score, yam_score, cassava_score, tomato_score>>

\* np.exp in fixed point: a number e stands for e / ExpScale
ExpScale == 10000

\* the Taylor series of exp: the term x^k / k!, and those after it
RECURSIVE ExpSeries(_, _, _)
ExpSeries(x, term, k) ==
    IF term = 0 THEN 0
    ELSE term + ExpSeries(x, (term * x) \div (ExpScale * k), k + 1)

\* np.exp(x) for a rational x of [0, 1]
Exp(x) == ExpSeries((x.n * ExpScale) \div x.d, ExpScale, 1)

\* np.exp(final_scores) / np.sum(np.exp(final_scores))
softmax(final_scores) ==
    LET exp_scores == [i \in DOMAIN final_scores |-> Exp(final_scores[i])]
        total == SumSeq(exp_scores)
    IN [i \in DOMAIN final_scores |-> Q(exp_scores[i], total)]

\* _apply_crop_heuristics: the softmax of
\* final_scores = 0.7 * scores + 0.3 * heuristic_scores
apply_crop_heuristics(cimg, base_predictions) ==
    LET texture_features == extract_texture_features(cimg)
        shape_features == extract_shape_features(cimg)
    IN IF ~texture_features.ok \/ ~shape_features.ok THEN Raised
       ELSE
         LET heuristic == heuristic_scores(extract_color_features(cimg),
                                           texture_features.val, shape_features.val)
         IN Ok(softmax([i \in 1..4 |-> QAdd(QMul(Q(7, 10), base_predictions[i]),
                                            QMul(Q(3, 10), heuristic[i]))]))

\* the first half of _apply_crop_heuristics: the features it extracts and the
\* heuristic score vector; texture, shape and heuristic are Raised when the
\* extraction raises
crop_features(cimg) ==
    LET texture_features == extract_texture_features(cimg)
        shape_features == extract_shape_features(cimg)
        color_features == extract_color_features(cimg)
    IN [ color |-> color_features,
         texture |-> texture_features,
         shape |-> shape_features,
         heuristic |-> IF ~texture_features.ok \/ ~shape_features.ok THEN Raised
                       ELSE Ok(heuristic_scores(color_features, texture_features.val,
                                                shape_features.val)) ]

\* the side of the square input the Keras model is built for
model_input_size == 224

\* self.model.predict accepts the image only in the shape the model is built for
ModelAccepts(cimg) == cimg.height = model_input_size /\ cimg.width = model_input_size

\* predict: the result maps each label of crop_classes to its entry of the
\* probability vector
predict(cimg, base_predictions) ==
    LET crop_scores == apply_crop_heuristics(cimg, base_predictions)
    IN IF ~ModelAccepts(cimg) THEN Raised
       ELSE IF ~crop_scores.ok THEN Raised
       ELSE Ok([crop \in KnownCrops |->
                  crop_scores.val[CHOOSE i \in DOMAIN crop_classes : crop_classes[i] = crop]])

(***************************************************************************)
(* TreatmentDatabase (utils/treatment_database.py).                        *)
(***************************************************************************)
\* _get_default_treatments: per crop, disease and severity, the numbers of
\* entries of the lists immediate_actions, prevention and treatments
TreatmentSizes ==
    [ corn |->
        [ fungal_infection |->
            [mild |-> <<3, 4, 3>>, moderate |-> <<4, 4, 3>>, severe |-> <<4, 4, 3>>, critical |-> <<4, 4, 3>>],
          bacterial_rot |->
            [mild |-> <<3, 3, 3>>, moderate |-> <<3, 3, 3>>, severe |-> <<3, 3, 3>>, critical |-> <<3, 3, 3>>],
          pest_damage |->
            [mild |-> <<3, 4, 3>>, moderate |-> <<3, 3, 3>>, severe |-> <<3, 3, 3>>, critical |-> <<3, 3, 3>>],
          overripeness |->
            [mild |-> <<3, 3, 3>>, moderate |-> <<3, 3, 3>>, severe |-> <<3, 3, 3>>, critical |-> <<3, 3, 3>>] ],
      tomato |->
        [ fungal_infection |->
            [mild |-> <<4, 4, 4>>, moderate |-> <<4, 4, 4>>, severe |-> <<4, 4, 4>>, critical |-> <<4, 4, 4>>],
          bacterial_rot |->
            [mild |-> <<4, 4, 4>>, moderate |-> <<4, 4, 4>>, severe |-> <<4, 4, 4>>, critical |-> <<4, 4, 4>>],
          overripeness |->
            [mild |-> <<4, 4, 4>>, moderate |-> <<4, 4, 4>>, severe |-> <<4, 4, 4>>, critical |-> <<4, 4, 4>>],
          blossom_end_rot |->
            [mild |-> <<4, 4, 4>>, moderate |-> <<4, 4, 4>>, severe |-> <<4, 4, 4>>, critical |-> <<4, 4, 4>>] ],
      yam |->
        [ fungal_infection |->
            [mild |-> <<4, 4, 4>>, moderate |-> <<4, 4, 4>>, severe |-> <<4, 4, 4>>, critical |-> <<4, 4, 4>>],
          bacterial_rot |->
            [mild |-> <<4, 4, 4>>, moderate |-> <<4, 4, 4>>, severe |-> <<4, 4, 4>>, critical |-> <<4, 4, 4>>],
          storage_rot |->
            [mild |-> <<4, 4, 4>>, moderate |-> <<4, 4, 4>>, severe |-> <<4, 4, 4>>, critical |-> <<4, 4, 4>>],
          sprouting |->
            [mild |-> <<4, 4, 4>>, moderate |-> <<4, 4, 4>>, severe |-> <<4, 4, 4>>, critical |-> <<4, 4, 4>>] ],
      cassava |->
        [ fungal_infection |->
            [mild |-> <<4, 4, 4>>, moderate |-> <<4, 4, 4>>, severe |-> <<4, 4, 4>>, critical |-> <<4, 4, 4>>],
          bacterial_rot |->
            [mild |-> <<4, 4, 4>>, moderate |-> <<4, 4, 4>>, severe |-> <<4, 4, 4>>, critical |-> <<4, 4, 4>>],
          storage_deterioration |->
            [mild |-> <<4, 4, 4>>, moderate |-> <<4, 4, 4>>, severe |-> <<4, 4, 4>>, critical |-> <<4, 4, 4>>],
          pest_damage |->
            [mild |-> <<4, 4, 4>>, moderate |-> <<4, 4, 4>>, severe |-> <<4, 4, 4>>, critical |-> <<4, 4, 4>>] ] ]

\* a list of n texts of one section of one record; a text is named by the
\* record, the section and its position
Items(key, section, n) == [i \in 1..n |-> key \o "/" \o section \o "/" \o ToString(i)]

\* a variant of an entry of the table whose prevention list is empty
TreatmentRecord_no_prevention(key, sizes) ==
    [ immediate_actions |-> Items(key, "immediate_actions", sizes[1]),
      prevention |-> << >>,
      treatments |-> Items(key, "treatments", sizes[3]) ]

TreatmentRecord(key, sizes) ==
    [ immediate_actions |-> Items(key, "immediate_actions", sizes[1]),
      prevention |-> Items(key, "prevention", sizes[2]),
      treatments |-> Items(key, "treatments", sizes[3]) ]

\* self.treatments as _get_default_treatments returns it
DefaultTreatments ==
    [c \in DOMAIN TreatmentSizes |->
       [d \in DOMAIN TreatmentSizes[c] |->
          [s \in DOMAIN TreatmentSizes[c][d] |->
             TreatmentRecord(c \o "/" \o d \o "/" \o s, TreatmentSizes[c][d][s])]]]

\* the record returned on a KeyError
GenericTreatment == TreatmentRecord("generic", <<3, 4, 4>>)

\* a variant of get_treatments that answers a severity it has no record for
\* with the disease's record for 'mild'
get_treatments_mild_on_missing(table, crop_type, disease_type, severity) ==
    IF crop_type \in DOMAIN table /\ disease_type \in DOMAIN table[crop_type]
    THEN IF severity \in DOMAIN table[crop_type][disease_type]
         THEN table[crop_type][disease_type][severity]
         ELSE table[crop_type][disease_type]["mild"]
    ELSE GenericTreatment

get_treatments(table, crop_type, disease_type, severity) ==
    IF crop_type \in DOMAIN table
         /\ disease_type \in DOMAIN table[crop_type]
         /\ severity \in DOMAIN table[crop_type][disease_type]
    THEN table[crop_type][disease_type][severity]
    ELSE GenericTreatment

(***************************************************************************)
(* The pipeline (app.py, main).                                            *)
(***************************************************************************)
\* the positional parameters of CropClassifier.predict after self
predict_params == 1
\* the positional arguments main passes to crop_classifier.predict
main_predict_args == 2

None == [none |-> TRUE]

\* no label: the run ended before one was chosen
NoLabel == "None"

\* max(crop_predictions.items(), key=lambda x: x[1])[0]: the first label, in
\* the order of crop_classes, whose value no later label exceeds
RECURSIVE TopFrom(_, _, _)
TopFrom(predictions, i, best) ==
    IF i > Len(crop_classes) THEN best
    ELSE TopFrom(predictions, i + 1,
                 IF QLt(predictions[best], predictions[crop_classes[i]])
                 THEN crop_classes[i] ELSE best)

top_of(predictions) == TopFrom(predictions, 2, crop_classes[1])

\* what one run of main did: the stages it invoked and what they returned
PipelineRun(stages, raised, crop_predictions, top_crop, quality_result, disease_result, treatment_key, treatment_data) ==
    [ stages |-> stages, raised |-> raised, crop_predictions |-> crop_predictions,
      top_crop |-> top_crop, quality_result |-> quality_result,
      disease_result |-> disease_result, treatment_key |-> treatment_key,
      treatment_data |-> treatment_data ]

\* the element of a one-element set: Only({F(x) : x \in {e}}) is F of the value
\* of e, computed once, as an assignment x = e followed by uses of x
Only(S) == CHOOSE x \in S : TRUE

\* main after the disease detector was called: the treatment lookup follows a
\* disease result
main_detected(crop_predictions, top_crop, quality_result, disease_result, table) ==
    IF ~disease_result.ok
    THEN PipelineRun(<<"predict", "assess_quality", "detect_disease">>, TRUE,
                     crop_predictions, top_crop, quality_result, None, << >>, None)
    ELSE PipelineRun(<<"predict", "assess_quality", "detect_disease", "get_treatments">>,
                     FALSE, crop_predictions, top_crop, quality_result, disease_result.val,
                     <<top_crop, disease_result.val.disease_type, disease_result.val.severity>>,
                     get_treatments(table, top_crop, disease_result.val.disease_type,
                                    disease_result.val.severity))

\* main after the quality assessment: the disease detector is called if the
\* status is "spoiled"
main_assessed(crop_predictions, top_crop, quality_result, img, catalog, table, hsv2gray) ==
    IF quality_result.status # "spoiled"
    THEN PipelineRun(<<"predict", "assess_quality">>, FALSE, crop_predictions, top_crop,
                     quality_result, None, << >>, None)
    ELSE Only({ main_detected(crop_predictions, top_crop, quality_result, disease_result,
                              table) :
                  disease_result \in {detect_disease(img, top_crop, catalog, hsv2gray)} })

\* main after the label was chosen
main_labelled(crop_predictions, top_crop, img, catalog, table, hsv2gray) ==
    Only({ main_assessed(crop_predictions, top_crop, quality_result, img, catalog, table,
                         hsv2gray) :
             quality_result \in {assess_quality(img, top_crop)} })

\* main after the classifier was called
main_classified(crop_predictions, img, catalog, table, hsv2gray) ==
    IF ~crop_predictions.ok
    THEN PipelineRun(<<"predict">>, TRUE, crop_predictions, NoLabel, None, None, << >>, None)
    ELSE Only({ main_labelled(crop_predictions, top_crop, img, catalog, table, hsv2gray) :
                  top_crop \in {top_of(crop_predictions.val)} })

\* one run of main on an uploaded file: the stages it invokes, in order, and
\* what they return; an exception of a stage ends the run.  The call of
\* predict passes main_predict_args arguments to predict_params parameters
main(cimg, base_predictions, img, catalog, table, hsv2gray) ==
    Only({ main_classified(crop_predictions, img, catalog, table, hsv2gray) :
             crop_predictions \in {IF main_predict_args # predict_params THEN Raised
                                   ELSE predict(cimg, base_predictions)} })

(***************************************************************************)
(* Inputs.                                                                 *)
(***************************************************************************)
\* what cv2.findContours can report as the main contour
Contours == {NoContour, PointContour, Shape(Q(1, 10)), Shape(One)}

\* Hough lines are found on Canny edges only
Coherent(img) == (img.edge_density = Zero) => (img.hough_lines = 0)

\* images for assess_quality: the pixels and the measurements its analyses read
QualityImages ==
    { img \in { [BlankImage EXCEPT !.px = p, !.texture_variance = tv,
                                   !.edge_density = ed, !.contour = ct,
                                   !.lab_outliers = lo, !.hough_lines = hl] :
                  p \in PixelColumns, tv \in {0, 800}, ed \in {Zero, Q(1, 5)},
                  ct \in Contours, lo \in {Zero, Q(1, 5)}, hl \in {0, 25} } :
        Coherent(img) }

\* arrays the stages cannot analyse
BadImages == {ImageOfKind(k) : k \in {"gray", "float", "empty", "none"}}

\* images for detect_disease: the pixels and the measurements of the pattern
\* detectors of each crop's catalog
DiseaseImages(crop_type) ==
    CASE crop_type = "tomato" ->
           { [BlankImage EXCEPT !.px = p, !.fuzzy_frac = ff, !.wrinkle = wr, !.sunken = su] :
               p \in PixelColumns, ff \in {Zero, One}, wr \in {Zero, Q(1, 5)},
               su \in {Zero, Half} }
      [] crop_type = "yam" ->
           { [BlankImage EXCEPT !.px = p, !.fuzzy_frac = ff, !.blur_low = bl,
                                !.protruding = pr] :
               p \in PixelColumns, ff \in {Zero, One}, bl \in {Zero, Q(1, 5)},
               pr \in {Zero, Q(1, 5)} }
      [] crop_type = "corn" ->
           { [BlankImage EXCEPT !.px = p, !.laplacian_var = lv, !.edge_frac = ef,
                                !.hole_count = hc] :
               p \in PixelColumns, lv \in {0, 500}, ef \in {Zero, One}, hc \in {0, 4} }
      [] crop_type = "cassava" ->
           { [BlankImage EXCEPT !.px = p, !.laplacian_var = lv, !.blue = bd,
                                !.hole_count = hc] :
               p \in PixelColumns, lv \in {0, 500}, bd \in {Zero, One}, hc \in {0, 4} }
      [] OTHER -> {BlankImage}

\* outputs of the base model: probability vectors over crop_classes
BaseVectors ==
    { <<Q(1, 4), Q(1, 4), Q(1, 4), Q(1, 4)>>,
      <<Q(26, 100), Q(25, 100), Q(25, 100), Q(24, 100)>>,
      <<Q(24, 100), Q(25, 100), Q(25, 100), Q(26, 100)>>,
      <<Q(1, 10), Q(1, 10), Q(1, 10), Q(7, 10)>> }

\* the vectors within 0.01 of the uniform one
NearUniform(base) == \A i \in 1..4 : QLe(QAbs(QSub(base[i], Q(1, 4))), Q(1, 100))

Yellow == <<1, 1, 0>>

BaseColours == {Yellow, <<1, 0, 0>>, <<1, 1, 1>>}

Tiles == [1..2 -> [1..2 -> {0, 3, 5}]]

\* every pixel of the image has the colour base at full brightness
Uniform(base) == [i \in 1..2 |-> [j \in 1..2 |-> 5]]

\* the size ImageProcessor gives every image (self.target_size)
target_size == 224

\* images for _apply_crop_heuristics: small ones of every tile, and uniform
\* ones of the pipeline's size and of a tall shape
ClassifierImages ==
    { ClassifierImage(hw[1], hw[2], b, t) :
        hw \in {<<2, 2>>, <<2, 3>>, <<2, 6>>}, b \in BaseColours, t \in Tiles }
    \cup { ClassifierImage(hw[1], hw[2], b, Uniform(b)) :
             hw \in {<<target_size, target_size>>, <<6, 2>>, <<3, 2>>}, b \in BaseColours }

\* images for predict: uniform ones of the pipeline's size and of a wide shape
PredictImages ==
    { ClassifierImage(hw[1], hw[2], b, Uniform(b)) :
        hw \in {<<target_size, target_size>>, <<2, 6>>}, b \in BaseColours }

Severities == {"mild", "moderate", "severe", "critical"}

\* a severity string no record of the treatment table is stored under
OtherSeverity == "extreme"

\* the thresholds of _determine_severity
SeverityThresholds == {Q(3, 10), Q(6, 10), Q(8, 10)}

\* scores for _determine_severity: a grid over [0, 1], and the thresholds
SeverityScores == {Q(k, SeverityGrid) : k \in 0..SeverityGrid} \cup SeverityThresholds

\* images for _analyze_disease_pattern: one colour all over, with every
\* measurement of the pattern detectors at its lowest or at its highest
PatternImages ==
    { [BlankImage EXCEPT !.px = [i \in 1..NPix |-> colour]] : colour \in Palette }
    \cup { [BlankImage EXCEPT !.px = [i \in 1..NPix |-> colour],
                              !.laplacian_var = 1000, !.sobel_ratio = Q(2, 1),
                              !.hole_count = 10, !.irregular_count = 5,
                              !.tunnel_count = 5, !.blur_low = One, !.wrinkle = One,
                              !.sunken = One, !.protruding = One, !.fiber = One,
                              !.blue = One, !.streak_frac = One, !.edge_frac = One,
                              !.fuzzy_frac = One] : colour \in Palette }

\* 8-bit RGB pixels for _rgb_to_hsv
RGBPixels == {<<r, g, b>> : r \in {0, 102, 255}, g \in {0, 51, 255}, b \in {0, 255}}

DiseaseNames ==
    UNION { {DiseaseCatalog[c][i].name : i \in DOMAIN DiseaseCatalog[c]} :
              c \in DOMAIN DiseaseCatalog }

(***************************************************************************)
(* The state machine: one stage, or the pipeline, is invoked on inputs of  *)
(* the caller's choice, returns or raises, and the next invocation starts  *)
(* afresh.                                                                 *)
(***************************************************************************)
VARIABLES
    hsv2gray,          \* whether the OpenCV build defines cv2.COLOR_HSV2GRAY
    disease_patterns,  \* DiseaseDetector.disease_patterns
    treatments,        \* TreatmentDatabase.treatments
    pc,                \* "idle", or "done" when an invocation has returned or raised
    call,              \* the invocation: the stage and its arguments
    result,            \* [raised, value]: what the invocation returned
    noted              \* history: an earlier invocation and what it returned

vars == <<hsv2gray, disease_patterns, treatments, pc, call, result, noted>>

config == <<hsv2gray, disease_patterns, treatments>>

NoCall == [stage |-> "none"]

NoResult == [raised |-> FALSE, value |-> None]

\* no invocation has been noted
NoNote == [set |-> FALSE, call |-> NoCall, result |-> NoResult, between |-> FALSE]

\* a variant of a stage's return that fails once the history holds an
\* invocation other than the noted one
Returned_after_other(r) ==
    IF noted.between THEN [raised |-> TRUE, value |-> None]
    ELSE [raised |-> ~r.ok, value |-> IF r.ok THEN r.val ELSE None]

Returned(r) == [raised |-> ~r.ok, value |-> IF r.ok THEN r.val ELSE None]

Init ==
    /\ hsv2gray \in BOOLEAN
    /\ disease_patterns = DiseaseCatalog
    /\ treatments = DefaultTreatments
    /\ pc = "idle"
    /\ call = NoCall
    /\ result = NoResult
    /\ noted = NoNote

\* a variant of an invocation that overwrites a part of the treatment table
Invoke_writing(c, r) ==
    /\ pc' = "done"
    /\ call' = c
    /\ result' = r
    /\ treatments' = [treatments EXCEPT !.tomato = treatments.corn]
    /\ UNCHANGED <<hsv2gray, disease_patterns, noted>>

\* the effect of an invocation: the call and what it returned are recorded
Invoke(c, r) ==
    /\ pc' = "done"
    /\ call' = c
    /\ result' = r
    /\ UNCHANGED <<config, noted>>

Predict ==
    /\ pc = "idle"
    /\ \E cimg \in PredictImages, base \in BaseVectors :
            Invoke([stage |-> "predict", image |-> cimg, base |-> base],
                   Returned(predict(cimg, base)))

ApplyCropHeuristics ==
    /\ pc = "idle"
    /\ \E cimg \in ClassifierImages, base \in BaseVectors :
            Invoke([stage |-> "apply_crop_heuristics", image |-> cimg, base |-> base],
                   Returned(apply_crop_heuristics(cimg, base)))

AssessQuality ==
    /\ pc = "idle"
    /\ \E img \in QualityImages \cup BadImages, crop_type \in CropInputs :
            Invoke([stage |-> "assess_quality", image |-> img, crop_type |-> crop_type],
                   Returned(Ok(assess_quality(img, crop_type))))

DetectDiseaseOf(crops) ==
    /\ pc = "idle"
    /\ \E crop_type \in crops :
            \E img \in DiseaseImages(crop_type) \cup BadImages :
                Invoke([stage |-> "detect_disease", image |-> img, crop_type |-> crop_type],
                       Returned(detect_disease(img, crop_type, disease_patterns, hsv2gray)))

DetectDisease == DetectDiseaseOf(CropInputs)

AnalyzeDiseasePattern ==
    /\ pc = "idle"
    /\ \E crop_type \in DOMAIN disease_patterns, img \in PatternImages :
            \E i \in DOMAIN disease_patterns[crop_type] :
                Invoke([stage |-> "analyze_disease_pattern", image |-> img,
                        crop_type |-> crop_type,
                        disease |-> disease_patterns[crop_type][i].name],
                       Returned(analyze_disease_pattern(img, disease_patterns[crop_type][i],
                                                        hsv2gray)))

RgbToHsv ==
    /\ pc = "idle"
    /\ \E p \in RGBPixels :
            Invoke([stage |-> "rgb_to_hsv", pixel |-> p], Returned(Ok(rgb_to_hsv(p))))

ExtractFeatures ==
    /\ pc = "idle"
    /\ \E cimg \in ClassifierImages :
            \E features \in {crop_features(cimg)} :
                Invoke([stage |-> "crop_features", image |-> cimg], Returned(Ok(features)))

DetermineSeverity ==
    /\ pc = "idle"
    /\ \E score \in SeverityScores :
            Invoke([stage |-> "determine_severity", score |-> score],
                   Returned(Ok(determine_severity(score))))

GetTreatments ==
    /\ pc = "idle"
    /\ \E crop_type \in CropInputs, disease_type \in DiseaseNames \cup {"unknown_spoilage"},
           severity \in Severities \cup {OtherSeverity} :
            Invoke([stage |-> "get_treatments", crop_type |-> crop_type,
                    disease_type |-> disease_type, severity |-> severity],
                   Returned(Ok(get_treatments(treatments, crop_type, disease_type, severity))))

\* the resized images main hands to the quality and disease stages
UploadImages ==
    { [BlankImage EXCEPT !.px = p, !.texture_variance = tv, !.contour = ct] :
        p \in PixelColumns, tv \in {0, 800}, ct \in {NoContour, Shape(One)} }

Main ==
    /\ pc = "idle"
    /\ \E b \in BaseColours, base \in BaseVectors, img \in UploadImages :
            \E cimg \in {ClassifierImage(target_size, target_size, b, Uniform(b))} :
                \E run \in {main(cimg, base, img, disease_patterns, treatments, hsv2gray)} :
                    Invoke([stage |-> "main", processed_image |-> cimg, base |-> base,
                            resized_image |-> img],
                           [raised |-> run.raised, value |-> run])

\* the invocation is over: nothing of it is kept (the history notes that
\* an invocation other than the noted one has taken place)
Return ==
    /\ pc = "done"
    /\ pc' = "idle"
    /\ call' = NoCall
    /\ result' = NoResult
    /\ noted' = IF noted.set /\ (call.stage # noted.call.stage \/ call # noted.call)
                THEN [noted EXCEPT !.between = TRUE]
                ELSE noted
    /\ UNCHANGED config

Next ==
    \/ GetTreatments
    \/ DetermineSeverity
    \/ RgbToHsv
    \/ AnalyzeDiseasePattern
    \/ AssessQuality
    \/ DetectDisease
    \/ Predict
    \/ ExtractFeatures
    \/ ApplyCropHeuristics
    \/ Main
    \/ Return

Spec == Init /\ [][Next]_vars

(***************************************************************************)
(* The catalog in another order.  A dict iterates in the order of          *)
(* insertion, which the literal of __init__ fixes; SpecOrder starts from   *)
(* a catalog whose tomato diseases were inserted in any order.             *)
(***************************************************************************)
Orders(seq) ==
    { [i \in DOMAIN seq |-> seq[f[i]]] :
        f \in {g \in [DOMAIN seq -> DOMAIN seq] : \A i, j \in DOMAIN seq : g[i] = g[j] => i = j} }

InitOrder ==
    /\ hsv2gray \in BOOLEAN
    /\ disease_patterns \in {[DiseaseCatalog EXCEPT !.tomato = o] : o \in Orders(DiseaseCatalog.tomato)}
    /\ treatments = DefaultTreatments
    /\ pc = "idle"
    /\ call = NoCall
    /\ result = NoResult
    /\ noted = NoNote

DetectTomato == DetectDiseaseOf({"tomato"})

NextOrder ==
    \/ DetectTomato
    \/ Return

SpecOrder == InitOrder /\ [][NextOrder]_vars

(***************************************************************************)
(* Repeated invocations.  SpecRepeat invokes the four stages on a few      *)
(* inputs each, in any sequence, and its history variable keeps one of the *)
(* invocations and its result, to be compared with a later invocation on   *)
(* the same inputs.                                                        *)
(***************************************************************************)
UniformPx(colour) == [i \in 1..NPix |-> colour]

RepeatImages ==
    { [BlankImage EXCEPT !.px = UniformPx(Pixel(25, 204, 204))],
      [BlankImage EXCEPT !.px = UniformPx(Pixel(15, 102, 102)), !.sunken = Half],
      ImageOfKind("gray") }

RepeatCrops == {"tomato", "corn", OtherCrop}

RepeatPredict ==
    /\ pc = "idle"
    /\ \E cimg \in {ClassifierImage(target_size, target_size, Yellow, Uniform(Yellow))},
           base \in {<<Q(1, 4), Q(1, 4), Q(1, 4), Q(1, 4)>>,
                     <<Q(1, 10), Q(1, 10), Q(1, 10), Q(7, 10)>>} :
            Invoke([stage |-> "predict", image |-> cimg, base |-> base],
                   Returned(predict(cimg, base)))

RepeatAssessQuality ==
    /\ pc = "idle"
    /\ \E img \in RepeatImages, crop_type \in RepeatCrops :
            Invoke([stage |-> "assess_quality", image |-> img, crop_type |-> crop_type],
                   Returned(Ok(assess_quality(img, crop_type))))

RepeatDetectDisease ==
    /\ pc = "idle"
    /\ \E img \in RepeatImages, crop_type \in RepeatCrops :
            Invoke([stage |-> "detect_disease", image |-> img, crop_type |-> crop_type],
                   Returned(detect_disease(img, crop_type, disease_patterns, hsv2gray)))

RepeatGetTreatments ==
    /\ pc = "idle"
    /\ \E crop_type \in {"tomato", OtherCrop}, severity \in {"mild", OtherSeverity} :
            Invoke([stage |-> "get_treatments", crop_type |-> crop_type,
                    disease_type |-> "fungal_infection", severity |-> severity],
                   Returned(Ok(get_treatments(treatments, crop_type, "fungal_infection",
                                              severity))))

\* the invocation is over, and the history keeps it
Note ==
    /\ pc = "done"
    /\ ~noted.set
    /\ pc' = "idle"
    /\ call' = NoCall
    /\ result' = NoResult
    /\ noted' = [set |-> TRUE, call |-> call, result |-> result, between |-> FALSE]
    /\ UNCHANGED config

NextRepeat ==
    \/ RepeatPredict
    \/ RepeatAssessQuality
    \/ RepeatDetectDisease
    \/ RepeatGetTreatments
    \/ Note
    \/ Return

SpecRepeat == Init /\ [][NextRepeat]_vars

(***************************************************************************)
(* Properties.                                                             *)
(***************************************************************************)
\* an invocation of the stage has returned or raised
Done(stage) == pc = "done" /\ call.stage = stage

\* assess_quality got an image it can analyse
Analysed == Done("assess_quality") /\ call.image.kind = "rgb"

\* C1: for every spoilage_score assess_quality computes, the status is
\* "fresh" if and only if the score is below 0.3; a score of exactly 0.3, and
\* every larger one, is "spoiled"
C1_FreshIffBelowThreshold ==
    Analysed =>
        /\ ~result.raised
        /\ result.value.status \in {"fresh", "spoiled"}
        /\ result.value.status = "fresh" <=> QLt(result.value.spoilage_score, Q(3, 10))

\* a score of exactly 0.3 was computed and classified "spoiled"
C1_ScoreAtThreshold ==
    /\ Analysed
    /\ result.value.spoilage_score = Q(3, 10)
    /\ result.value.status = "spoiled"

\* C2: _determine_severity maps every score of [0, 1] to exactly one of mild,
\* moderate, severe, critical: below 0.3 mild, from 0.3 below 0.6 moderate,
\* from 0.6 below 0.8 severe, from 0.8 critical, each threshold in the higher
\* bucket
C2_SeverityPartition ==
    Done("determine_severity") =>
        LET s == call.score
        IN /\ ~result.raised
           /\ result.value \in Severities
           /\ QLt(s, Q(3, 10)) => result.value = "mild"
           /\ QLe(Q(3, 10), s) /\ QLt(s, Q(6, 10)) => result.value = "moderate"
           /\ QLe(Q(6, 10), s) /\ QLt(s, Q(8, 10)) => result.value = "severe"
           /\ QLe(Q(8, 10), s) => result.value = "critical"

\* the threshold 0.6 was mapped, to severe
C2_ThresholdMapped ==
    /\ Done("determine_severity")
    /\ call.score = Q(6, 10)
    /\ result.value = "severe"

\* C3: in every result assess_quality returns (fresh, spoiled or unknown) and
\* every result detect_disease returns (catalog crop or not), the confidence
\* lies in [0, 0.95]
C3_ConfidenceRange ==
    (pc = "done" /\ call.stage \in {"assess_quality", "detect_disease"} /\ ~result.raised) =>
        /\ QLe(Zero, result.value.confidence)
        /\ QLe(result.value.confidence, Q(95, 100))

\* a fresh result whose 1 - spoilage_score exceeds 0.95 reports 0.95
C3_CapReached ==
    /\ Analysed
    /\ result.value.status = "fresh"
    /\ QLt(result.value.spoilage_score, Q(5, 100))
    /\ result.value.confidence = Q(95, 100)

\* the stage names of a run, as a set
Invoked(run) == {run.stages[i] : i \in DOMAIN run.stages}

\* the stages of a run are an initial part of <<predict, assess_quality,
\* detect_disease, get_treatments>>
InPipelineOrder(run) ==
    LET order == <<"predict", "assess_quality", "detect_disease", "get_treatments">>
    IN Len(run.stages) <= Len(order) /\ run.stages = SubSeq(order, 1, Len(run.stages))

\* C4: in every pipeline run the stages are invoked in the order species
\* classification, quality assessment, disease detection, treatment lookup;
\* the disease detector is invoked if and only if the quality status is
\* "spoiled", and the treatment lookup if and only if the disease detector
\* was, with the key (top species, returned disease_type, returned severity)
C4_PipelineOrder ==
    Done("main") =>
        LET run == result.value
        IN /\ InPipelineOrder(run)
           /\ {"predict", "assess_quality"} \subseteq Invoked(run)
           /\ "detect_disease" \in Invoked(run) <=> run.quality_result.status = "spoiled"
           /\ "get_treatments" \in Invoked(run) <=> "detect_disease" \in Invoked(run)
           /\ "get_treatments" \in Invoked(run) =>
                  run.treatment_key = <<run.top_crop, run.disease_result.disease_type,
                                        run.disease_result.severity>>

\* C5: assess_quality on an empty or zero-size image returns status
\* "unknown", confidence 0.5 and the four indicators at 0.5; any exception
\* raised while the indicators are computed becomes that same result and
\* never reaches the caller
C5_DefaultOnFailure ==
    Done("assess_quality") =>
        /\ ~result.raised
        /\ call.image.kind # "rgb" =>
               /\ result.value.status = "unknown"
               /\ result.value.confidence = Half
               /\ \A k \in {"color", "texture", "shape", "surface"} :
                      result.value.indicators[k] = Half

\* an array the colour conversion rejects was answered with the default result
C5_ExceptionConverted ==
    /\ Done("assess_quality")
    /\ call.image.kind = "gray"
    /\ result.value.status = "unknown"

\* C6: for every 224 x 224 x 3 preprocessed image, the species classification
\* as the pipeline invokes it completes without raising and returns a
\* probability for each of corn, yam, cassava, tomato
C6_ClassificationCompletes ==
    /\ Done("main") =>
           /\ result.value.crop_predictions.ok
           /\ DOMAIN result.value.crop_predictions.val = KnownCrops
    /\ (Done("predict") /\ call.image.height = target_size
                        /\ call.image.width = target_size) =>
           /\ ~result.raised
           /\ DOMAIN result.value = KnownCrops

\* C7: for every well-formed 8-bit RGB image and each of the four catalog
\* crops, detect_disease completes without raising and returns a well-formed
\* result: no detector the catalog selects fails on the array it is handed
C7_DetectionCompletes ==
    (Done("detect_disease") /\ call.image.kind = "rgb" /\ call.crop_type \in KnownCrops) =>
        /\ ~result.raised
        /\ result.value.disease_type \in DiseaseNames
        /\ result.value.severity \in Severities

\* every mask of the colour, texture and surface analyses is empty
MasksAllZero(img) ==
    /\ QA_detect_brown_spots(img.px) = Zero
    /\ QA_detect_dark_spots(img.px) = Zero
    /\ QA_detect_black_spots(img.px) = Zero
    /\ QA_detect_dark_patches(img.px) = Zero
    /\ QA_calculate_yellow_vibrancy(img.px) = Zero
    /\ QA_assess_tomato_red_quality(img.px) = Zero
    /\ QA_assess_white_purity(img.px) = Zero
    /\ QA_detect_mold_growth(img.px) = Zero
    /\ img.edge_density = Zero
    /\ img.lab_outliers = Zero
    /\ img.hough_lines = 0

ZeroMasksCase == Analysed /\ MasksAllZero(call.image) /\ call.crop_type \in KnownCrops

\* what "approximately 0" allows
Tolerance == Q(5, 100)

\* C8 as stated: an image whose colour, texture and surface masks are all 0
\* yields, for each of the four crops, a spoilage_score of approximately 0
\* and status "fresh"
C8_ZeroMasksFresh ==
    ZeroMasksCase =>
        /\ QLe(result.value.spoilage_score, Tolerance)
        /\ result.value.status = "fresh"

\* C8: an image whose colour, texture and surface masks are all 0 has surface
\* indicator 0 and colour indicator 0.3 (corn, cassava), 0.6 (tomato) or
\* 0.2 * std(hue) / 180 (yam), the complement terms; its score is at least
\* 0.12 for corn and cassava and 0.18 for tomato; tomato, yam and cassava have
\* texture indicator 0 and are "fresh"; corn scores
\* 0.12 + 0.3 * texture + 0.1 * shape and is "fresh" only below 0.3
C8_ZeroMasksScore ==
    ZeroMasksCase =>
        LET r == result.value
            crop == call.crop_type
        IN /\ r.indicators.surface = Zero
           /\ crop \in {"corn", "cassava"} =>
                  r.indicators.color = Q(3, 10) /\ QLe(Q(12, 100), r.spoilage_score)
           /\ crop = "tomato" =>
                  r.indicators.color = Q(6, 10) /\ QLe(Q(18, 100), r.spoilage_score)
           /\ crop = "yam" =>
                  r.indicators.color = QMul(Q(2, 10), QMul(HueStd(call.image.px), Q(1, 180)))
           /\ crop # "corn" => r.indicators.texture = Zero /\ r.status = "fresh"
           /\ crop = "corn" =>
                  /\ r.spoilage_score =
                        QAdd(Q(12, 100), QAdd(QMul(Q(3, 10), r.indicators.texture),
                                              QMul(Q(1, 10), r.indicators.shape)))
                  /\ r.status = "fresh" <=> QLt(r.spoilage_score, Q(3, 10))

\* corn with all masks 0 and a uniform gray level is "spoiled"
C8_ZeroMasksSpoiled ==
    /\ ZeroMasksCase
    /\ call.crop_type = "corn"
    /\ call.image.texture_variance = 0
    /\ result.value.status = "spoiled"

\* every pixel is (255, 255, 0)
AllYellow(cimg) ==
    cimg.base = Yellow /\ \A i, j \in 1..2 : cimg.tile[i][j] = 5

\* one side is at least three times the other
StronglyElongated(cimg) ==
    cimg.width >= 3 * cimg.height \/ cimg.height >= 3 * cimg.width

\* the position of a label in crop_classes
IndexOf(crop) == CHOOSE i \in DOMAIN crop_classes : crop_classes[i] = crop

\* C9: for an all-yellow, strongly elongated image and a near-uniform base
\* vector, the classifier gives corn a probability strictly greater than each
\* of yam, cassava and tomato
C9_CornWins ==
    (Done("apply_crop_heuristics") /\ AllYellow(call.image)
         /\ StronglyElongated(call.image) /\ NearUniform(call.base)) =>
        /\ ~result.raised
        /\ \A crop \in KnownCrops \ {"corn"} :
               QLt(result.value[IndexOf(crop)], result.value[IndexOf("corn")])

\* the score detect_disease gave a disease
ScoreOf(name) ==
    LET i == CHOOSE k \in DOMAIN result.value.all_scores :
                 result.value.all_scores[k].name = name
    IN result.value.all_scores[i].score

\* detect_disease scored the tomato diseases: blossom_end_rot positive, every
\* other one 0
OnlyBlossomEndRot ==
    /\ Done("detect_disease")
    /\ call.crop_type = "tomato"
    /\ ~result.raised
    /\ QLt(Zero, ScoreOf("blossom_end_rot"))
    /\ \A k \in DOMAIN result.value.all_scores :
           result.value.all_scores[k].name # "blossom_end_rot" =>
               result.value.all_scores[k].score = Zero

C11_UnknownSpecies ==
    (Done("detect_disease") /\ call.crop_type \notin DOMAIN disease_patterns) =>
        /\ ~result.raised
        /\ result.value.disease_type = "unknown_spoilage"
        /\ result.value.confidence = Q(1, 2)
        /\ result.value.severity = "moderate"

\* an unknown species with an array every detector would raise on
C11_UnknownSpeciesBadImage ==
    /\ Done("detect_disease")
    /\ call.crop_type \notin DOMAIN disease_patterns
    /\ call.image.kind = "gray"
    /\ ~result.raised
    /\ result.value.disease_type = "unknown_spoilage"

\* C12: get_treatments never fails: when the crop, the disease under the crop
\* or the severity under the disease is no key of the table it returns the
\* fixed generic record, whose sections are exactly immediate_actions,
\* prevention and treatments; when all three are keys it returns the record
\* stored under them.
C12_TreatmentLookup ==
    Done("get_treatments") =>
        /\ ~result.raised
        /\ IF /\ call.crop_type \in DOMAIN treatments
              /\ call.disease_type \in DOMAIN treatments[call.crop_type]
              /\ call.severity \in DOMAIN treatments[call.crop_type][call.disease_type]
           THEN result.value = treatments[call.crop_type][call.disease_type][call.severity]
           ELSE /\ result.value = GenericTreatment
                /\ DOMAIN result.value = {"immediate_actions", "prevention", "treatments"}

\* a stored crop and disease with a severity the table has no record for
C12_MissingSeverity ==
    /\ Done("get_treatments")
    /\ call.crop_type \in DOMAIN treatments
    /\ call.disease_type \in DOMAIN treatments[call.crop_type]
    /\ call.severity \notin DOMAIN treatments[call.crop_type][call.disease_type]
    /\ result.value = GenericTreatment

\* C13: for every valid image and every base vector the probabilities predict
\* returns are all non-negative and sum to 1.0 within 1e-6.
C13_ProbabilityVector ==
    (Done("predict") /\ ModelAccepts(call.image)) =>
        /\ ~result.raised
        /\ \A crop \in DOMAIN result.value : QLe(Zero, result.value[crop])
        /\ QLe(QAbs(QSub(QAdd(QAdd(result.value[crop_classes[1]], result.value[crop_classes[2]]),
                              QAdd(result.value[crop_classes[3]], result.value[crop_classes[4]])),
                         One)),
               Q(1, 1000000))

C15_ConfigurationUntouched ==
    /\ disease_patterns = DiseaseCatalog
    /\ treatments = DefaultTreatments
    /\ pc = "idle" => (call = NoCall /\ result = NoResult)

\* several invocations have returned, one of them of get_treatments
C15_AfterSeveralInvocations ==
    /\ pc = "idle"
    /\ noted.set
    /\ noted.between
    /\ noted.call.stage = "get_treatments"
    /\ disease_patterns = DiseaseCatalog
    /\ treatments = DefaultTreatments

\* a number of [0, 1]
InUnit(x) == QLe(Zero, x) /\ QLe(x, One)

\* C16: whenever assess_quality does not fall back to 'unknown', for any crop
\* label, each of the four indicators and the spoilage score lie in [0, 1].
C16_IndicatorsInUnitRange ==
    (Done("assess_quality") /\ ~result.raised /\ result.value.status # "unknown") =>
        /\ InUnit(result.value.indicators.color)
        /\ InUnit(result.value.indicators.texture)
        /\ InUnit(result.value.indicators.shape)
        /\ InUnit(result.value.indicators.surface)
        /\ InUnit(result.value.spoilage_score)

\* the weighted surface measurements exceed 1 and the indicator is 1, for a
\* label that is no crop of the weight table
C16_SurfaceClamped ==
    /\ Analysed
    /\ call.crop_type \notin KnownCrops
    /\ result.value.status # "unknown"
    /\ result.value.indicators.surface = One
    /\ QLt(One, QAdd(QAdd(QMul(QA_detect_mold_growth(call.image.px), Q(8, 10)),
                          QMul(QA_detect_soft_spots(call.image), Q(6, 10))),
                     QMul(QA_detect_surface_damage(call.image), Q(4, 10))))

\* C17: for a crop label outside corn, tomato, yam and cassava the spoilage
\* score is the fusion of the indicators with corn's weights 0.4, 0.3, 0.1 and
\* 0.2 (at most 1), and the result is a fresh or spoiled one, not an error.
C17_UnknownCropCornWeights ==
    (Analysed /\ call.crop_type \notin KnownCrops) =>
        /\ ~result.raised
        /\ result.value.status \in {"fresh", "spoiled"}
        /\ result.value.spoilage_score =
              QMin(QAdd(QAdd(QMul(result.value.indicators.color, Q(4, 10)),
                             QMul(result.value.indicators.texture, Q(3, 10))),
                        QAdd(QMul(result.value.indicators.shape, Q(1, 10)),
                             QMul(result.value.indicators.surface, Q(2, 10)))),
                   One)

\* an unknown label with a shape and a surface indicator above 0, which
\* corn's weights tell from every other crop's
C17_UnknownCropFused ==
    /\ Analysed
    /\ call.crop_type \notin KnownCrops
    /\ QLt(Zero, result.value.indicators.shape)
    /\ QLt(Zero, result.value.indicators.surface)
    /\ result.value.status = "fresh"
    /\ QLt(Zero, result.value.spoilage_score)

\* C18: every result detect_disease returns, also for an unrecognized species,
\* carries disease_type, confidence, severity, description and all_scores; for
\* a species of the catalog all_scores has one entry per disease of the
\* species and the entry of the returned disease_type is the maximum.
C18_ResultWellFormed ==
    (Done("detect_disease") /\ ~result.raised) =>
        /\ DOMAIN result.value =
              {"disease_type", "confidence", "severity", "description", "all_scores"}
        /\ call.crop_type \in DOMAIN disease_patterns =>
              LET crop_diseases == disease_patterns[call.crop_type]
                  all_scores == result.value.all_scores
              IN /\ DOMAIN all_scores = DOMAIN crop_diseases
                 /\ \A i \in DOMAIN crop_diseases : all_scores[i].name = crop_diseases[i].name
                 /\ \E i \in DOMAIN all_scores :
                       /\ all_scores[i].name = result.value.disease_type
                       /\ \A j \in DOMAIN all_scores :
                             QLe(all_scores[j].score, all_scores[i].score)

\* the sum of the values of pattern terms, at most 1
RECURSIVE SumVals(_)
SumVals(terms) == IF terms = << >> THEN Zero ELSE QAdd(Head(terms).val, SumVals(Tail(terms)))

C20_AllZero ==
    /\ Done("detect_disease")
    /\ call.crop_type \in DOMAIN disease_patterns
    /\ ~result.raised
    /\ \A j \in DOMAIN result.value.all_scores : result.value.all_scores[j].score = Zero
    /\ result.value.disease_type = "fungal_infection"

\* C21: the heuristic vector is in the order of the labels corn, yam,
\* cassava, tomato: predict reports under each label the normalized value of
\* 0.7 * base + 0.3 * heuristic of that label.
C21_FusedUnderLabel ==
    (Done("predict") /\ ModelAccepts(call.image)) =>
        /\ ~result.raised
        /\ crop_classes = <<"corn", "yam", "cassava", "tomato">>
        /\ crop_features(call.image).heuristic.ok
        /\ \A i \in DOMAIN crop_classes :
              result.value[crop_classes[i]] =
                  softmax([k \in 1..4 |->
                             QAdd(QMul(Q(7, 10), call.base[k]),
                                  QMul(Q(3, 10), crop_features(call.image).heuristic.val[k]))])[i]

\* the hue of an RGB pixel as a fraction of the circle, from the max, the min
\* and the diff of its channels; 0 where diff = 0
HueOf(p) ==
    LET max_val == Max2(Max2(p[1], p[2]), p[3])
        min_val == Min2(Min2(p[1], p[2]), p[3])
        diff == max_val - min_val
        sixth == IF max_val = p[1] THEN (IF p[2] < p[3] THEN 6 * diff ELSE 0) + p[2] - p[3]
                 ELSE IF max_val = p[2] THEN 2 * diff + p[3] - p[1]
                 ELSE 4 * diff + p[1] - p[2]
    IN IF diff # 0 THEN Q(sixth, 6 * diff) ELSE Zero

\* C22: _rgb_to_hsv gives each pixel value = max channel, saturation =
\* diff / max (0 if max = 0) and a hue computed from the max, min and diff of
\* the channels, 0 where diff = 0.
C22_HsvOfPixel ==
    Done("rgb_to_hsv") =>
        LET p == call.pixel
            max_val == Max2(Max2(p[1], p[2]), p[3])
            diff == max_val - Min2(Min2(p[1], p[2]), p[3])
        IN /\ ~result.raised
           /\ result.value.v = Q(max_val, 255)
           /\ result.value.s = (IF max_val = 0 THEN Zero ELSE Q(diff, max_val))
           /\ result.value.h = HueOf(p)

\* the sum of the weights of the pattern names of a disease
RECURSIVE SumColorWeights(_)
SumColorWeights(patterns) ==
    IF patterns = << >> THEN Zero
    ELSE QAdd(color_pattern_weight(Head(patterns)), SumColorWeights(Tail(patterns)))

RECURSIVE SumTextureWeights(_)
SumTextureWeights(patterns) ==
    IF patterns = << >> THEN Zero
    ELSE QAdd(texture_pattern_weight(Head(patterns)), SumTextureWeights(Tail(patterns)))

\* the score of a disease when every sub-detector returns 1
ScoreBound(entry) ==
    QAdd(QMul(Q(6, 10), QMin(SumColorWeights(entry.color_patterns), One)),
         QMul(Q(4, 10), QMin(SumTextureWeights(entry.texture_patterns), One)))

\* the entry of the disease _analyze_disease_pattern was invoked on
CalledEntry ==
    LET crop_diseases == disease_patterns[call.crop_type]
    IN crop_diseases[CHOOSE i \in DOMAIN crop_diseases : crop_diseases[i].name = call.disease]

\* C23: with sub-detector outputs in [0, 1] every term of a pattern score is
\* at most the weight of its pattern name, so no disease scores above what
\* its weights allow, which is at most 0.66 (reached by the weights of corn's
\* fungal_infection), 0.52 for tomato and 0.56 for yam; detect_disease then
\* never returns 'critical', its confidence is the winning score, below the
\* cap of 0.95, and for tomato and yam the severity is 'mild' or 'moderate'.
C23_ScoresBounded ==
    /\ (Done("analyze_disease_pattern") /\ ~result.raised) =>
          LET cp == CalledEntry.color_patterns
              tp == CalledEntry.texture_patterns
          IN /\ \A k \in DOMAIN cp :
                   QLe(color_pattern_term(cp[k], call.image, hsv2gray).val,
                       color_pattern_weight(cp[k]))
             /\ \A k \in DOMAIN tp :
                   QLe(texture_pattern_term(tp[k], call.image).val,
                       texture_pattern_weight(tp[k]))
             /\ QLe(result.value, ScoreBound(CalledEntry))
             /\ QLe(ScoreBound(CalledEntry), Q(66, 100))
             /\ (call.crop_type = "corn" /\ call.disease = "fungal_infection")
                   => ScoreBound(CalledEntry) = Q(66, 100)
             /\ call.crop_type = "tomato" => QLe(ScoreBound(CalledEntry), Q(52, 100))
             /\ call.crop_type = "yam" => QLe(ScoreBound(CalledEntry), Q(56, 100))
    /\ (Done("detect_disease") /\ call.crop_type \in DOMAIN disease_patterns /\ ~result.raised) =>
          /\ result.value.severity # "critical"
          /\ QLt(result.value.confidence, Q(95, 100))
          /\ \E i \in DOMAIN result.value.all_scores :
                /\ result.value.all_scores[i].name = result.value.disease_type
                /\ result.value.all_scores[i].score = result.value.confidence
          /\ call.crop_type \in {"tomato", "yam"} =>
                result.value.severity \in {"mild", "moderate"}

\* corn's fungal_infection scored on an image with every texture measurement
\* at its highest
C23_CornFungalScored ==
    /\ Done("analyze_disease_pattern")
    /\ call.crop_type = "corn"
    /\ call.disease = "fungal_infection"
    /\ ~result.raised
    /\ call.image.laplacian_var = 1000
    /\ QLt(Q(4, 10), result.value)

\* C24: for corn the disease overripeness always scores 0, since none of its
\* pattern names has a detector branch, and it is declared after
\* fungal_infection; detect_disease never returns it for corn.
C24_CornNeverOverripe ==
    /\ (Done("detect_disease") /\ call.crop_type = "corn" /\ ~result.raised) =>
          result.value.disease_type # "overripeness"
    /\ (Done("analyze_disease_pattern") /\ call.crop_type = "corn"
           /\ call.disease = "overripeness") =>
          /\ ~result.raised
          /\ result.value = Zero
          /\ \A k \in DOMAIN CalledEntry.color_patterns :
                color_pattern_weight(CalledEntry.color_patterns[k]) = Zero
          /\ \A k \in DOMAIN CalledEntry.texture_patterns :
                texture_pattern_weight(CalledEntry.texture_patterns[k]) = Zero
    /\ \E i, j \in DOMAIN disease_patterns.corn :
          /\ i < j
          /\ disease_patterns.corn[i].name = "fungal_infection"
          /\ disease_patterns.corn[j].name = "overripeness"

\* corn's overripeness scored on a black image whose measurements are all at
\* their highest
C24_OverripenessScoredZero ==
    /\ Done("analyze_disease_pattern")
    /\ call.crop_type = "corn"
    /\ call.disease = "overripeness"
    /\ call.image.laplacian_var = 1000
    /\ \A i \in DOMAIN call.image.px : call.image.px[i].v < 40
    /\ ~result.raised
    /\ result.value = Zero

\* C25: for a label outside the four crops assess_quality has colour and
\* texture indicators 0 and a shape indicator of 0, or 0.5 when no contour is
\* found, so the spoilage score is at most 0.25 and the status is 'fresh', or
\* 'unknown' on failure, never 'spoiled'; a pipeline run that reaches the
\* disease detector does so with one of the four crops.
C25_UnknownCropNeverSpoiled ==
    /\ (Done("assess_quality") /\ call.crop_type \notin KnownCrops) =>
          /\ ~result.raised
          /\ result.value.status \in {"fresh", "unknown"}
          /\ result.value.status = "fresh" =>
                /\ result.value.indicators.color = Zero
                /\ result.value.indicators.texture = Zero
                /\ result.value.indicators.shape =
                      (IF call.image.contour.kind = "none" THEN Half ELSE Zero)
                /\ QLe(result.value.spoilage_score, Q(25, 100))
    /\ (Done("main") /\ \E k \in DOMAIN result.value.stages :
                            result.value.stages[k] = "detect_disease") =>
          result.value.top_crop \in KnownCrops

\* an unknown label at the highest score: no contour and a surface indicator of 1
C25_UnknownCropHighest ==
    /\ Analysed
    /\ call.crop_type \notin KnownCrops
    /\ call.image.contour.kind = "none"
    /\ result.value.indicators.surface = One
    /\ result.value.spoilage_score = Q(25, 100)
    /\ result.value.status = "fresh"

\* C26: in every result of assess_quality the confidence goes with the
\* status: above 0.7 and at most 0.95 for 'fresh'; at least 0.3, at most 0.95
\* and equal to min(spoilage_score, 0.95) for 'spoiled'; 0.5 for 'unknown'; so
\* it is never below 0.3.
C26_ConfidenceTiedToStatus ==
    (Done("assess_quality") /\ ~result.raised) =>
        /\ result.value.status \in {"fresh", "spoiled", "unknown"}
        /\ result.value.status = "fresh" =>
              QLt(Q(7, 10), result.value.confidence) /\ QLe(result.value.confidence, Q(95, 100))
        /\ result.value.status = "spoiled" =>
              /\ QLe(Q(3, 10), result.value.confidence)
              /\ QLe(result.value.confidence, Q(95, 100))
              /\ result.value.confidence = QMin(result.value.spoilage_score, Q(95, 100))
        /\ result.value.status = "unknown" => result.value.confidence = Q(1, 2)
        /\ QLe(Q(3, 10), result.value.confidence)

\* a spoiled result with the lowest confidence there is
C26_SpoiledLowest ==
    /\ Analysed
    /\ result.value.status = "spoiled"
    /\ result.value.confidence = Q(3, 10)

\* the triple get_treatments was invoked on is one detect_disease can return
\* for a crop of the catalog
CatalogTriple ==
    /\ call.crop_type \in DOMAIN DiseaseCatalog
    /\ \E i \in DOMAIN DiseaseCatalog[call.crop_type] :
          DiseaseCatalog[call.crop_type][i].name = call.disease_type
    /\ call.severity \in Severities

\* C27: with the default table every triple of a catalog crop, one of its
\* diseases and a severity has its own entry, with non-empty immediate_actions,
\* prevention and treatments; the generic record is returned only for keys
\* outside the catalog.
C27_CatalogTriplesStored ==
    Done("get_treatments") =>
        /\ CatalogTriple =>
              /\ result.value # GenericTreatment
              /\ result.value.immediate_actions # << >>
              /\ result.value.prevention # << >>
              /\ result.value.treatments # << >>
              /\ \A c \in DOMAIN treatments :
                    \A d \in DOMAIN treatments[c] :
                       \A sv \in DOMAIN treatments[c][d] :
                          treatments[c][d][sv] = result.value
                              => (c = call.crop_type /\ d = call.disease_type
                                     /\ sv = call.severity)
        /\ result.value = GenericTreatment => ~CatalogTriple

\* the last disease of the last crop, at the last severity
C27_StoredEntryReturned ==
    /\ Done("get_treatments")
    /\ call.crop_type = "yam"
    /\ call.disease_type = "sprouting"
    /\ call.severity = "critical"
    /\ result.value # GenericTreatment
    /\ result.value = treatments.yam.sprouting.critical

\* the hue of every pixel is 0, the yellow trigger is off, and the corn
\* heuristic score is 0.3 if the elongated trigger is on and 0 otherwise
CornHeuristicBounded(grid_limit) ==
    /\ Done("rgb_to_hsv") => result.value.h = Zero
    /\ Done("crop_features") =>
          /\ result.value.color.dominant_yellow = Zero
          /\ result.value.texture.ok => QLe(result.value.texture.val.grid_pattern, grid_limit)
          /\ result.value.heuristic.ok =>
                /\ QLe(result.value.heuristic.val[1], Q(3, 10))
                /\ result.value.heuristic.val[1] =
                      (IF QLt(Q(6, 10), result.value.shape.val.elongated)
                       THEN Q(3, 10) ELSE Zero)

\* C28 (as stated): the corn heuristic score never exceeds 0.3: the hue is 0
\* for every pixel, so dominant_yellow never fires, and the fraction of edge
\* values above their 80th percentile is at most 0.2, so grid_pattern never
\* fires.
C28_GridAtMostFifth == CornHeuristicBounded(Q(1, 5))

\* C28 (amended): as stated, with the fraction of edge values above their
\* 80th percentile at most 0.5, which still never fires the trigger (> 0.5).
C28_CornHeuristicBounded == CornHeuristicBounded(Q(1, 2))

\* an image of bright yellow pixels only, with more than a fifth of its edge
\* values above their 80th percentile, and a corn heuristic score of 0
C28_YellowImageNoCornScore ==
    /\ Done("crop_features")
    /\ call.image.base = Yellow
    /\ \A i, j \in 1..2 : call.image.tile[i][j] >= 3
    /\ result.value.heuristic.ok
    /\ result.value.color.dominant_yellow = Zero
    /\ QLt(Q(1, 5), result.value.texture.val.grid_pattern)
    /\ result.value.heuristic.val[1] = Zero

\* C29: for every square image the shape features are elongated = 0,
\* round = 1.0 and cylindrical = 0, so the tomato round trigger fires and the
\* elongated and cylindrical triggers do not; for any image the elongated
\* trigger (> 0.6) and the cylindrical trigger (> 0.5) are never both on.
C29_SquareShapeConstants ==
    /\ (Done("crop_features") /\ call.image.height = call.image.width) =>
          /\ result.value.shape.ok
          /\ result.value.shape.val.elongated = Zero
          /\ result.value.shape.val.round = One
          /\ result.value.shape.val.cylindrical = Zero
          /\ result.value.heuristic.ok
          /\ QLe(Q(3, 10), result.value.heuristic.val[4])
    /\ (Done("crop_features") /\ result.value.shape.ok) =>
          ~(QLt(Q(6, 10), result.value.shape.val.elongated)
              /\ QLt(Q(5, 10), result.value.shape.val.cylindrical))

\* C30: for an 8-bit image the red quality of a tomato is the mean of the
\* products s * v taken modulo 256, over 255 * 255: at most 255/65025, and
\* 1/65025 for saturated red at full brightness; the tomato colour indicator
\* is then at least 0.597 and the tomato spoilage score at least 0.179.
C30_RedQualityWraps ==
    (Analysed /\ call.crop_type = "tomato") =>
        /\ ~result.raised
        /\ QLe(QA_assess_tomato_red_quality(call.image.px), Q(255, 65025))
        /\ (\A i \in DOMAIN call.image.px : call.image.px[i] = Pixel(0, 255, 255))
              => QA_assess_tomato_red_quality(call.image.px) = Q(1, 65025)
        /\ QLe(Q(597, 1000), result.value.indicators.color)
        /\ QLe(Q(179, 1000), result.value.spoilage_score)

\* a tomato image of saturated red at full brightness, whose colour indicator
\* is just under 0.6
C30_SaturatedRed ==
    /\ Analysed
    /\ call.crop_type = "tomato"
    /\ \A i \in DOMAIN call.image.px : call.image.px[i] = Pixel(0, 255, 255)
    /\ QLt(Q(597, 1000), result.value.indicators.color)
    /\ QLt(result.value.indicators.color, Q(6, 10))

====
